---- MODULE Spec2Model ----
(***************************************************************************)
(* Verification model of the context-graph API (TrinityDev369/templates):  *)
(* the document ingestion orchestrator, the graph service over Apache AGE, *)
(* and the snapshot service.                                               *)
(*                                                                         *)
(* The stores (relational rows, vector points, graph nodes and edges) are  *)
(* the state.  Every awaited store call of a handler is one step, and may  *)
(* raise: an exception is the branch ok = FALSE of the step.               *)
(***************************************************************************)
EXTENDS Integers, Sequences, FiniteSets, TLC

\* ------------------------------------------------------------------------
\* Bounds of the model
\* ------------------------------------------------------------------------

\* chunks a non-blank document is split into
MaxChunks == 2
\* process_document requests started in one behaviour
MaxRuns == 3

\* ------------------------------------------------------------------------
\* Values
\* ------------------------------------------------------------------------

\* SQL NULL / Python None
NULL == "NULL"

Docs == {"doc-1", "doc-2"}
Requests == {"r1", "r2"}

\* raw_content of a document row: the empty string, a whitespace-only text,
\* or a text that chunk_text splits into nchunks chunks.
DocContents ==
    { [text |-> FALSE, nchunks |-> 0],
      [text |-> TRUE,  nchunks |-> 0],
      [text |-> TRUE,  nchunks |-> MaxChunks] }

\* ChunkingService.chunk_text: the chunks of a text, chunk.index = 0..n-1.
chunk_text(content) ==
    IF ~content.text THEN << >>
    ELSE [k \in 1..content.nchunks |-> [index |-> k - 1]]

\* {**a, **b}: b overlays a
Overlay(a, b) ==
    [k \in (DOMAIN a) \cup (DOMAIN b) |-> IF k \in DOMAIN b THEN b[k] ELSE a[k]]

\* to_cypher_map: keys whose value is None are dropped
to_cypher_map(props) ==
    [k \in {x \in DOMAIN props : props[x] # NULL} |-> props[k]]

\* ------------------------------------------------------------------------
\* State
\* ------------------------------------------------------------------------
VARIABLES
    documents,      \* public.documents: doc id -> row
    chunks,         \* public.chunks: set of rows
    points,         \* the project's vector collection: set of points
    req,            \* process_document requests: request -> locals and position
    nextRun,        \* number of process_document requests started so far
    failedDeletes,  \* history: point ids whose delete_points call raised
    extractionClient, \* extraction.client is configured
    nodes,          \* the project's graph: set of vertices
    edges,          \* the project's graph: set of edges
    nextNodeId,     \* the graph's vertex id sequence
    nextEdgeId,     \* the graph's edge id sequence
    graphExists,    \* the project's named graph exists in ag_catalog
    snapshots,      \* public.kg_snapshots: set of rows
    snapClock,      \* now() / next snapshot id of the snapshot table
    op,             \* the graph or snapshot request being served: locals, position
    opsLeft,        \* graph or snapshot requests the behaviour may still start
    projects,       \* public.projects: set of rows
    graphs,         \* ag_catalog: names of the graphs that exist
    collections,    \* the vector store: names of the collections that exist
    field_nodes,    \* swarm database: the field_nodes table, id -> row
    agent_presence, \* swarm database: the agent_presence table, agent_id -> row
    state_file      \* onboarding: the persisted state file of the employee

ingestVars == <<documents, chunks, points, req, nextRun, failedDeletes, extractionClient>>
graphVars == <<nodes, edges, nextNodeId, nextEdgeId>>
serviceVars == <<graphExists, snapshots, snapClock, op, opsLeft>>
tenantVars == <<projects, graphs, collections>>
scriptVars == <<field_nodes, agent_presence, state_file>>
vars == <<ingestVars, graphVars, serviceVars, tenantVars, scriptVars>>

\* ------------------------------------------------------------------------
\* Graph service (services/graph.py)
\* ------------------------------------------------------------------------

\* GraphService.create_entity: CREATE (n:type {name: ..., **properties})
create_entity_node(nid, type, name, properties) ==
    [id |-> nid, label |-> type,
     props |-> to_cypher_map(Overlay([name |-> name], properties))]

\* A CREATE that does not match its endpoints first
create_relationship_edges_unmatched(ns, eid, source, target, type, properties) ==
    {[id |-> eid, src |-> source, tgt |-> target, label |-> type,
      props |-> to_cypher_map(properties)]}

\* GraphService.create_relationship: MATCH (a), (b) WHERE id(a) = source AND
\* id(b) = target CREATE (a)-[r]->(b); no row, and no edge, when an endpoint
\* does not match.
create_relationship_edges(ns, eid, source, target, type, properties) ==
    IF (\E a \in ns : a.id = source) /\ (\E b \in ns : b.id = target)
    THEN {[id |-> eid, src |-> source, tgt |-> target, label |-> type,
           props |-> to_cypher_map(properties)]}
    ELSE {}

\* Names in the collation order of ORDER BY n.name
NameOrder == << "Alpha", "Beta", "Other", "Widget", "alpha", "widget" >>

NameRank(name) == CHOOSE i \in DOMAIN NameOrder : NameOrder[i] = name

\* Cypher toLower / Python str.lower
toLower(name) ==
    CASE name = "Alpha"  -> "alpha"
      [] name = "Beta"   -> "beta"
      [] name = "Other"  -> "other"
      [] name = "Widget" -> "widget"
      [] OTHER           -> name

\* The rows of a query in the order of an integer sort key
RECURSIVE OrderByRank(_, _)
OrderByRank(S, rank) ==
    IF S = {} THEN << >>
    ELSE LET m == CHOOSE x \in S : \A y \in S : rank[x] <= rank[y]
         IN << m >> \o OrderByRank(S \ {m}, rank)

\* GraphService.list_entities: MATCH (n) ... ORDER BY n.name (ties by id)
list_entities(ns) ==
    LET before(m, n) ==
            \/ NameRank(m.props.name) < NameRank(n.props.name)
            \/ m.props.name = n.props.name /\ m.id < n.id
    IN OrderByRank(ns, [n \in ns |-> Cardinality({m \in ns : before(m, n)})])

\* GraphService.list_relationships: MATCH (a)-[r]->(b), rows in id order
list_relationships(es) == OrderByRank(es, [e \in es |-> e.id])

\* SnapshotService.export_all: the entities, then the relationships
export_all(ns, es) ==
    LET le == list_entities(ns)
        lr == list_relationships(es)
    IN [entities |-> [i \in 1..Len(le) |->
                        [age_id |-> le[i].id, name |-> le[i].props.name,
                         type |-> le[i].label, properties |-> le[i].props]],
        relationships |-> [i \in 1..Len(lr) |->
                        [age_id |-> lr[i].id, source_id |-> lr[i].src,
                         target_id |-> lr[i].tgt, type |-> lr[i].label,
                         properties |-> lr[i].props]]]

\* GraphService.update_entity: SET n.key = value, REMOVE n.key for None
update_entity(ns, entity_id, updates) ==
    LET removed == {k \in DOMAIN updates : updates[k] = NULL}
        set(p) == [k \in ((DOMAIN p) \cup (DOMAIN updates)) \ removed |->
                      IF k \in DOMAIN updates THEN updates[k] ELSE p[k]]
    IN {IF n.id = entity_id THEN [n EXCEPT !.props = set(n.props)] ELSE n : n \in ns}

\* DETACH DELETE of the nodes with the given ids: the nodes that remain
detach_delete_nodes(ns, ids) == {n \in ns : n.id \notin ids}

\* DETACH DELETE of the nodes with the given ids: the edges that remain
detach_delete_edges(es, ids) == {e \in es : e.src \notin ids /\ e.tgt \notin ids}

\* A grouping that keeps the node with the highest id
find_duplicates_keep_last(ns) ==
    LET key(n) == << toLower(n.props.name), n.label >>
        members(k) == {n.id : n \in {x \in ns : key(x) = k}}
        dup == {k \in {key(n) : n \in ns} : Cardinality(members(k)) > 1}
        keys == OrderByRank(dup, [k \in dup |-> CHOOSE i \in members(k) : TRUE])
        sorted(k) == OrderByRank(members(k), [i \in members(k) |-> 0 - i])
    IN [g \in 1..Len(keys) |->
           [recommended_keep |-> Head(sorted(keys[g])),
            remove_ids |-> Tail(sorted(keys[g]))]]

\* A grouping by the lowercased name alone
find_duplicates_by_name(ns) ==
    LET key(n) == toLower(n.props.name)
        members(k) == {n.id : n \in {x \in ns : key(x) = k}}
        dup == {k \in {key(n) : n \in ns} : Cardinality(members(k)) > 1}
        keys == OrderByRank(dup, [k \in dup |-> CHOOSE i \in members(k) :
                                                   \A j \in members(k) : i <= j])
        sorted(k) == OrderByRank(members(k), [i \in members(k) |-> i])
    IN [g \in 1..Len(keys) |->
           [recommended_keep |-> Head(sorted(keys[g])),
            remove_ids |-> Tail(sorted(keys[g]))]]

\* GraphService.find_duplicates followed by the grouping of
\* deduplicate_entities: one group per lower(name)::type key with more than
\* one node, in order of first appearance; keep = lowest id.
find_duplicates(ns) ==
    LET le == list_entities(ns)
        key(n) == << toLower(n.props.name), n.label >>
        members(k) == {n.id : n \in {x \in ns : key(x) = k}}
        dup == {k \in {key(n) : n \in ns} : Cardinality(members(k)) > 1}
        first(k) == CHOOSE i \in 1..Len(le) :
                        key(le[i]) = k /\ \A j \in 1..(i - 1) : key(le[j]) # k
        keys == OrderByRank(dup, [k \in dup |-> first(k)])
        sorted(k) == OrderByRank(members(k), [i \in members(k) |-> i])
    IN [g \in 1..Len(keys) |->
           [recommended_keep |-> Head(sorted(keys[g])),
            remove_ids |-> Tail(sorted(keys[g]))]]

\* ------------------------------------------------------------------------
\* Snapshot service (services/snapshot.py)
\* ------------------------------------------------------------------------

MAX_SNAPSHOTS_PER_PROJECT == 20

EmptyExport == [entities |-> << >>, relationships |-> << >>]

\* Locals of the graph or snapshot request being served.  row_id is the id
\* of the snapshot row the request inserted.  before and log are history:
\* the graph when the request started, and the upsert calls that returned;
\* sent is history too: the raw query was handed to Database.execute_cypher.
IdleOp ==
    [kind |-> "none", pc |-> "idle", status |-> 0,
     trigger |-> "none", after |-> "none", exported |-> EmptyExport, row_id |-> 0,
     snapshot_id |-> 0, graph_data |-> EmptyExport, old_to_new |-> << >>,
     j |-> 0, k |-> 0, entities_restored |-> 0, relationships_restored |-> 0,
     entity_ids |-> {}, dry_run |-> FALSE, groups |-> << >>, g |-> 0, ri |-> 0,
     dir |-> "out", rels |-> << >>, merged |-> 0, rewire_failed |-> FALSE,
     name |-> NULL, type |-> NULL, properties |-> << >>, description |-> NULL,
     existing_id |-> 0, existing_props |-> << >>, created |-> FALSE,
     merged_properties |-> {}, log |-> << >>,
     query |-> << >>, sent |-> FALSE,
     before |-> [nodes |-> {}, edges |-> {}]]

\* ------------------------------------------------------------------------
\* Document ingestion (routers/documents.py, process_document)
\* ------------------------------------------------------------------------

IdleReq ==
    [pc |-> "idle", doc |-> NULL, run |-> 0, existing |-> {}, hadChunks |-> FALSE,
     i |-> 0, records |-> {}, entity_id_map |-> << >>, j |-> 0,
     entities_extracted |-> 0, relationships_created |-> 0,
     status |-> 0, chunks_created |-> 0, error |-> NULL, caught |-> NULL,
     warned |-> FALSE]

\* What extraction.extract_from_document returns for a document (the LLM's
\* answer after cross-chunk deduplication): two entities and one relationship.
ExtractionResult ==
    [entities |-> << [temp_id |-> "d0", name |-> "Alpha", type |-> "Component"],
                     [temp_id |-> "d1", name |-> "Beta",  type |-> "Component"] >>,
     relationships |-> << [source |-> "d1", target |-> "d0", type |-> "USES"] >>]

DocChunks(d) == {c \in chunks : c.document_id = d}
DocPoints(d) == {p \in points : p.document_id = d}

\* The chunk ids (uuid4) a run creates: one per chunk of the document.
RunChunkIds(run, d) ==
    {<<run, c.index>> : c \in {chunk_text(documents[d].raw_content)[k] :
                                 k \in DOMAIN chunk_text(documents[d].raw_content)}}

SetReq(r, new) == req' = [req EXCEPT ![r] = new]

\* the except branch of process_document is entered with exception e
Raise(r, e) == SetReq(r, [req[r] EXCEPT !.pc = "except", !.error = e])

\* A response that reports no stored entity or relationship
Return200_zero_counts(rq, docs) ==
    [rq EXCEPT !.pc = "done", !.status = 200,
               !.chunks_created = Len(chunk_text(docs[rq.doc].raw_content)),
               !.entities_extracted = 0, !.relationships_created = 0]

\* lines 440-448: ProcessDocumentResponse with the counts of the run
Return200(rq, docs) ==
    [rq EXCEPT !.pc = "done", !.status = 200,
               !.chunks_created = Len(chunk_text(docs[rq.doc].raw_content))]

\* lines 221-247: look the document up; 404 when absent, 400 when raw_content
\* is empty; otherwise enter the try block.  (A row that delete_document
\* removed is kept with present = FALSE: its raw_content is what the
\* requests that loaded it before still hold in their locals.)
Start(r, d) ==
    /\ req[r].pc = "idle"
    /\ nextRun < MaxRuns
    /\ nextRun' = nextRun + 1
    /\ IF ~documents[d].present
       THEN SetReq(r, [IdleReq EXCEPT !.pc = "done", !.doc = d, !.status = 404])
       ELSE IF ~documents[d].raw_content.text
       THEN SetReq(r, [IdleReq EXCEPT !.pc = "done", !.doc = d, !.status = 400])
       ELSE SetReq(r, [IdleReq EXCEPT !.pc = "fetch_existing", !.doc = d,
                                      !.run = nextRun + 1])
    /\ UNCHANGED <<documents, chunks, points, failedDeletes, extractionClient, graphVars, serviceVars, tenantVars, scriptVars>>

\* the position after the cleanup: chunk_text runs without suspending
AfterCleanup(d) ==
    IF Len(chunk_text(documents[d].raw_content)) = 0 THEN "mark_empty" ELSE "embed"

\* lines 251-254: SELECT qdrant_point_id FROM chunks WHERE document_id = d
FetchExisting(r) ==
    /\ req[r].pc = "fetch_existing"
    /\ \E ok \in BOOLEAN :
         IF ok
         THEN LET rows == DocChunks(req[r].doc)
                  point_ids == {c.qdrant_point_id : c \in rows}
              IN SetReq(r, [req[r] EXCEPT
                     !.existing = point_ids,
                     !.hadChunks = (rows # {}),
                     !.pc = IF rows = {} THEN AfterCleanup(req[r].doc)
                            ELSE "delete_points"])
         ELSE Raise(r, "fetch_existing")
    /\ UNCHANGED <<documents, chunks, points, nextRun, failedDeletes, extractionClient, graphVars, serviceVars, tenantVars, scriptVars>>

\* a delete_points that removes nothing
delete_points_keeps_all(ps, point_ids) == ps

\* VectorService.delete_points: the points with the given ids are removed
delete_points(ps, point_ids) == {p \in ps : p.id \notin point_ids}

\* lines 258-264: vector.delete_points inside its own try/except: a failure
\* is logged as a warning and the run goes on.
DeletePoints(r) ==
    /\ req[r].pc = "delete_points"
    /\ \E ok \in BOOLEAN :
         /\ IF ok
            THEN /\ points' = delete_points(points, req[r].existing)
                 /\ UNCHANGED failedDeletes
            ELSE /\ failedDeletes' = failedDeletes \cup
                       {p.id : p \in {q \in points : q.id \in req[r].existing}}
                 /\ UNCHANGED points
         /\ SetReq(r, [req[r] EXCEPT !.pc = "delete_rows", !.warned = ~ok])
    /\ UNCHANGED <<documents, chunks, nextRun, extractionClient, graphVars, serviceVars, tenantVars, scriptVars>>

\* DELETE FROM public.chunks WHERE document_id = d
delete_chunk_rows(rows, d) == {c \in rows : c.document_id # d}

\* lines 267-270
DeleteRows(r) ==
    /\ req[r].pc = "delete_rows"
    /\ \E ok \in BOOLEAN :
         IF ok
         THEN /\ chunks' = delete_chunk_rows(chunks, req[r].doc)
              /\ SetReq(r, [req[r] EXCEPT !.pc = AfterCleanup(req[r].doc)])
         ELSE /\ Raise(r, "delete_rows")
              /\ UNCHANGED chunks
    /\ UNCHANGED <<documents, points, nextRun, failedDeletes, extractionClient, graphVars, serviceVars, tenantVars, scriptVars>>

\* UPDATE documents SET processed = true, processed_at = NOW(), error_message = NULL
\* (NOW() is the logical time of the request: its run number)
mark_processed(docs, d, now) ==
    IF ~docs[d].present THEN docs
    ELSE [docs EXCEPT ![d] = [@ EXCEPT !.processed = TRUE, !.processed_at = now,
                                       !.error_message = NULL]]

\* lines 283-299: no chunks: mark processed and return zero counts
MarkEmpty(r) ==
    /\ req[r].pc = "mark_empty"
    /\ \E ok \in BOOLEAN :
         IF ok
         THEN /\ documents' = mark_processed(documents, req[r].doc, req[r].run)
              /\ SetReq(r, [req[r] EXCEPT !.pc = "done", !.status = 200])
         ELSE /\ Raise(r, "mark_empty")
              /\ UNCHANGED documents
    /\ UNCHANGED <<chunks, points, nextRun, failedDeletes, extractionClient, graphVars, serviceVars, tenantVars, scriptVars>>

\* lines 302-303: embedding.embed_texts, one vector per chunk text
Embed(r) ==
    /\ req[r].pc = "embed"
    /\ \E ok \in BOOLEAN :
         IF ok
         THEN SetReq(r, [req[r] EXCEPT !.pc = "insert", !.i = 0, !.records = {}])
         ELSE Raise(r, "embed_texts")
    /\ UNCHANGED <<documents, chunks, points, nextRun, failedDeletes, extractionClient, graphVars, serviceVars, tenantVars, scriptVars>>

\* process_document marking the document before the vector upsert
AfterInsert_mark_first(r, i) ==
    IF i + 1 = Len(chunk_text(documents[req[r].doc].raw_content))
    THEN "mark" ELSE "insert"

\* the position after the chunk row with index i has been inserted
AfterInsert(r, i) ==
    IF i + 1 = Len(chunk_text(documents[req[r].doc].raw_content))
    THEN "upsert" ELSE "insert"

\* lines 313-340: one INSERT INTO public.chunks per chunk (each commits on its
\* own, Database.execute), the chunk id doubling as the vector point id.
\* The insert raises when the document row is gone (chunks.document_id
\* references documents, "cascades to chunks").
InsertChunk(r) ==
    /\ req[r].pc = "insert"
    /\ \E ok \in BOOLEAN :
         IF ok /\ documents[req[r].doc].present
         THEN LET chunk == chunk_text(documents[req[r].doc].raw_content)[req[r].i + 1]
                  chunk_id == <<req[r].run, chunk.index>>
              IN /\ chunks' = chunks \cup
                        {[id |-> chunk_id, document_id |-> req[r].doc,
                          chunk_index |-> chunk.index, qdrant_point_id |-> chunk_id]}
                 /\ SetReq(r, [req[r] EXCEPT
                        !.i = @ + 1,
                        !.records = @ \cup {[id |-> chunk_id,
                                             document_id |-> req[r].doc,
                                             chunk_index |-> chunk.index]},
                        !.pc = AfterInsert(r, req[r].i)])
         ELSE /\ Raise(r, "insert_chunk")
              /\ UNCHANGED chunks
    /\ UNCHANGED <<documents, points, nextRun, failedDeletes, extractionClient, graphVars, serviceVars, tenantVars, scriptVars>>

\* VectorService.upsert_chunks: one point per record, id = chunk id; a point
\* with the same id is replaced.
upsert_chunks(ps, records) ==
    {p \in ps : p.id \notin {x.id : x \in records}} \cup
    {[id |-> x.id, document_id |-> x.document_id, chunk_index |-> x.chunk_index] :
        x \in records}

\* line 343
Upsert(r) ==
    /\ req[r].pc = "upsert"
    /\ \E ok \in BOOLEAN :
         IF ok
         THEN /\ points' = upsert_chunks(points, req[r].records)
              /\ SetReq(r, [req[r] EXCEPT !.pc = "mark"])
         ELSE /\ Raise(r, "upsert_chunks")
              /\ UNCHANGED points
    /\ UNCHANGED <<documents, chunks, nextRun, failedDeletes, extractionClient, graphVars, serviceVars, tenantVars, scriptVars>>

\* lines 352-374: mark the document processed, then phase 2 when the
\* extraction client is configured
MarkProcessed(r) ==
    /\ req[r].pc = "mark"
    /\ \E ok \in BOOLEAN :
         IF ok
         THEN /\ documents' = mark_processed(documents, req[r].doc, req[r].run)
              /\ SetReq(r, IF extractionClient
                            THEN [req[r] EXCEPT !.pc = "extract"]
                            ELSE Return200(req[r], documents))
         ELSE /\ Raise(r, "mark_processed")
              /\ UNCHANGED documents
    /\ UNCHANGED <<chunks, points, nextRun, failedDeletes, extractionClient, graphVars, serviceVars, tenantVars, scriptVars>>

\* lines 376-381: extraction.extract_from_document (LLM calls); any exception
\* of phase 2 is caught at lines 431-436 and the request returns normally.
Extract(r) ==
    /\ req[r].pc = "extract"
    /\ \E ok \in BOOLEAN :
         IF ok
         THEN SetReq(r, [req[r] EXCEPT !.pc = "store_entity", !.j = 0,
                                       !.entity_id_map = << >>])
         ELSE SetReq(r, Return200([req[r] EXCEPT !.caught = "extract_from_document"], documents))
    /\ UNCHANGED <<documents, chunks, points, nextRun, failedDeletes, extractionClient, graphVars, serviceVars, tenantVars, scriptVars>>

\* the position after entity j (0-based) of the extraction result is stored
AfterEntity(j) ==
    IF j + 1 < Len(ExtractionResult.entities) THEN "store_entity"
    ELSE IF Len(ExtractionResult.relationships) = 0 THEN "respond" ELSE "store_rel"

\* lines 392-406: graph.create_entity per extracted entity, properties
\* augmented with document_id and source
StoreEntity(r) ==
    /\ req[r].pc = "store_entity"
    /\ \E ok \in BOOLEAN :
         IF ok
         THEN LET entity == ExtractionResult.entities[req[r].j + 1]
                  node == create_entity_node(nextNodeId, entity.type, entity.name,
                              [document_id |-> req[r].doc, source |-> "filename"])
                  next == AfterEntity(req[r].j)
                  rq == [req[r] EXCEPT
                            !.entity_id_map = (entity.temp_id :> node.id) @@ @,
                            !.entities_extracted = @ + 1,
                            !.j = IF next = "store_entity" THEN @ + 1 ELSE 0,
                            !.pc = next]
              IN /\ nodes' = nodes \cup {node}
                 /\ nextNodeId' = nextNodeId + 1
                 /\ SetReq(r, IF next = "respond" THEN Return200(rq, documents) ELSE rq)
         ELSE /\ SetReq(r, Return200([req[r] EXCEPT !.caught = "create_entity"], documents))
              /\ UNCHANGED <<nodes, nextNodeId>>
    /\ UNCHANGED <<documents, chunks, points, nextRun, failedDeletes, extractionClient,
                   edges, nextEdgeId, serviceVars, tenantVars, scriptVars>>

\* lines 409-422: graph.create_relationship per extracted relationship whose
\* source and target both resolved to graph ids
StoreRelationship(r) ==
    /\ req[r].pc = "store_rel"
    /\ \E ok \in BOOLEAN :
         IF ok
         THEN LET rel == ExtractionResult.relationships[req[r].j + 1]
                  m == req[r].entity_id_map
                  resolved == rel.source \in DOMAIN m /\ rel.target \in DOMAIN m
                  new == IF resolved
                         THEN create_relationship_edges(nodes, nextEdgeId,
                                  m[rel.source], m[rel.target], rel.type, << >>)
                         ELSE {}
                  last == req[r].j + 1 = Len(ExtractionResult.relationships)
                  rq == [req[r] EXCEPT
                            !.relationships_created = @ + Cardinality(new),
                            !.j = @ + 1]
              IN /\ edges' = edges \cup new
                 /\ nextEdgeId' = nextEdgeId + Cardinality(new)
                 /\ SetReq(r, IF last THEN Return200(rq, documents) ELSE rq)
         ELSE /\ SetReq(r, Return200([req[r] EXCEPT !.caught = "create_relationship"], documents))
              /\ UNCHANGED <<edges, nextEdgeId>>
    /\ UNCHANGED <<documents, chunks, points, nextRun, failedDeletes, extractionClient,
                   nodes, nextNodeId, serviceVars, tenantVars, scriptVars>>

\* An UPDATE that leaves the error message as it was
mark_failed_keeps_message(docs, d, e) ==
    [docs EXCEPT ![d] = [@ EXCEPT !.processed = FALSE]]

\* UPDATE documents SET processed = false, error_message = str(e)
mark_failed(docs, d, e) ==
    IF ~docs[d].present THEN docs
    ELSE [docs EXCEPT ![d] = [@ EXCEPT !.processed = FALSE, !.error_message = e]]

\* lines 450-470: the except branch: store the error text, answer 500.  The
\* UPDATE may itself raise; the request then fails with 500 all the same.
Except(r) ==
    /\ req[r].pc = "except"
    /\ \E ok \in BOOLEAN :
         IF ok
         THEN documents' = mark_failed(documents, req[r].doc, req[r].error)
         ELSE UNCHANGED documents
    /\ SetReq(r, [req[r] EXCEPT !.pc = "done", !.status = 500])
    /\ UNCHANGED <<chunks, points, nextRun, failedDeletes, extractionClient, graphVars, serviceVars, tenantVars, scriptVars>>

\* the response has been sent; the request's locals are gone
Finish(r) ==
    /\ req[r].pc = "done"
    /\ SetReq(r, IdleReq)
    /\ UNCHANGED <<documents, chunks, points, nextRun, failedDeletes, extractionClient, graphVars, serviceVars, tenantVars, scriptVars>>

process_document(r) ==
    \/ \E d \in Docs : Start(r, d)
    \/ FetchExisting(r)
    \/ DeletePoints(r)
    \/ DeleteRows(r)
    \/ MarkEmpty(r)
    \/ Embed(r)
    \/ InsertChunk(r)
    \/ Upsert(r)
    \/ MarkProcessed(r)
    \/ Extract(r)
    \/ StoreEntity(r)
    \/ StoreRelationship(r)
    \/ Except(r)
    \/ Finish(r)

\* Documents as create_document leaves them: not processed, no error
NewDocument(content) ==
    [raw_content |-> content, processed |-> FALSE, processed_at |-> 0,
     error_message |-> NULL, present |-> TRUE]

EmptyGraph ==
    /\ nodes = {}
    /\ edges = {}
    /\ nextNodeId = 1
    /\ nextEdgeId = 1

InitIngest ==
    /\ documents \in [Docs -> {NewDocument(c) : c \in DocContents}]
    /\ chunks = {}
    /\ points = {}
    /\ req = [r \in Requests |-> IdleReq]
    /\ nextRun = 0
    /\ failedDeletes = {}
    /\ extractionClient \in BOOLEAN
    /\ EmptyGraph
    /\ graphExists = TRUE
    /\ snapshots = {}
    /\ snapClock = 1
    /\ op = IdleOp
    /\ opsLeft = 0
    /\ field_nodes = << >>
    /\ agent_presence = << >>
    /\ state_file = << >>
    /\ projects = {}
    /\ graphs = {}
    /\ collections = {}

\* Requests are served one at a time
NextIngest == process_document("r1")

SpecIngest == InitIngest /\ [][NextIngest]_vars

\* ------------------------------------------------------------------------
\* Claims on document ingestion
\* ------------------------------------------------------------------------

ChunkIds(d) == {c.id : c \in DocChunks(d)}
PointIds(d) == {p.id : p \in DocPoints(d)}

\* a request that has returned successfully from re-processing a document
\* that had chunk rows of a prior run
Reprocessed(r) ==
    /\ req[r].pc = "done"
    /\ req[r].status = 200
    /\ req[r].hadChunks

\* C1 as claimed: after a successful re-processing the document's chunk rows
\* and its vector points are exactly those of the new run.
C1_ReprocessExact ==
    \A r \in Requests :
        Reprocessed(r) =>
            /\ ChunkIds(req[r].doc) = RunChunkIds(req[r].run, req[r].doc)
            /\ PointIds(req[r].doc) = RunChunkIds(req[r].run, req[r].doc)

\* C1 amended: after a successful re-processing the chunk rows are exactly
\* those of the new run, every point of the new run is stored, and the only
\* other points of the document are points whose delete_points call raised
\* (the failure is logged and the run goes on).
C1_ReprocessExactUnlessDeleteFailed ==
    \A r \in Requests :
        Reprocessed(r) =>
            /\ ChunkIds(req[r].doc) = RunChunkIds(req[r].run, req[r].doc)
            /\ RunChunkIds(req[r].run, req[r].doc) \subseteq PointIds(req[r].doc)
            /\ PointIds(req[r].doc) \ RunChunkIds(req[r].run, req[r].doc)
                   \subseteq failedDeletes

\* C1 witness: a successful re-processing that replaced the prior run's rows
\* and points by the new run's
C1_Witness ==
    \E r \in Requests :
        /\ Reprocessed(r)
        /\ RunChunkIds(req[r].run, req[r].doc) # {}
        /\ PointIds(req[r].doc) = RunChunkIds(req[r].run, req[r].doc)
        /\ failedDeletes = {}

\* C2 as claimed: once a process_document request has finished (with success,
\* or with an error raised by embedding, a chunk-row insert or the vector
\* upsert) the document's chunk rows are empty or the complete chunk set of
\* one run.
C2_ChunksAllOrNothing ==
    \A r \in Requests :
        (/\ req[r].pc = "done"
         /\ \/ req[r].status = 200
            \/ req[r].status = 500 /\
               req[r].error \in {"embed_texts", "insert_chunk", "upsert_chunks"})
        => \/ ChunkIds(req[r].doc) = {}
           \/ \E run \in 1..MaxRuns :
                  ChunkIds(req[r].doc) = RunChunkIds(run, req[r].doc)

\* C3: the step that marks a document processed finds every chunk row and
\* every vector point of the run stored, and the extraction phase runs only
\* with the run's vector points stored.
C3_IngestionOrdering ==
    [][ /\ \A d \in Docs :
              (documents'[d].processed /\
               documents'[d].processed_at # documents[d].processed_at)
              => /\ RunChunkIds(documents'[d].processed_at, d) \subseteq ChunkIds(d)
                 /\ RunChunkIds(documents'[d].processed_at, d) \subseteq PointIds(d)
        /\ \A r \in Requests :
              req'[r].pc \in {"extract", "store_entity", "store_rel"}
              => /\ RunChunkIds(req'[r].run, req'[r].doc) \subseteq PointIds(req'[r].doc)
                 /\ documents'[req'[r].doc].processed
                 /\ req[r].pc \in {"mark", "extract", "store_entity", "store_rel"}
      ]_vars

\* C3 witness: the extraction phase is running for a document with chunks
C3_Witness ==
    \E r \in Requests :
        /\ req[r].pc = "store_rel"
        /\ RunChunkIds(req[r].run, req[r].doc) # {}
        /\ documents[req[r].doc].processed_at = req[r].run

\* ------------------------------------------------------------------------
\* Graph and snapshot requests (routers/snapshots.py, routers/knowledge.py)
\* ------------------------------------------------------------------------

\* graph and snapshot requests started in one behaviour
MaxOps == 2

\* graph_name = f"project_{slug.replace('-', '_')}"
graph_name(slug) == << "project_", slug >>

\* VectorService._collection_name: f"project_{project_slug}_chunks"
collection_name(slug) == << "project_", slug, "_chunks" >>

\* A row of public.projects; its id tells the insert that made it (0: a row
\* that was there from the start)
ProjectRow(slug, n) ==
    [id |-> << slug, n >>, slug |-> slug, graph_name |-> graph_name(slug)]

\* The rows of public.projects with a slug
RowsOf(slug) == {row \in projects : row.slug = slug}

\* A Cypher query raises when the graph does not exist
CypherOutcomes == IF graphExists THEN BOOLEAN ELSE {FALSE}

\* The request ends with an HTTP status
Respond(o, code) == [o EXCEPT !.pc = "done", !.status = code]

\* A new request is taken when none is being served
StartOp(o) ==
    /\ op.pc \in {"idle", "done"}
    /\ opsLeft > 0
    /\ opsLeft' = opsLeft - 1
    /\ op' = o

\* POST /snapshots
create_snapshot ==
    /\ StartOp([IdleOp EXCEPT !.kind = "create_snapshot", !.pc = "snap_export",
                              !.trigger = "manual", !.after = "return"])
    /\ UNCHANGED <<ingestVars, tenantVars, scriptVars, graphVars, graphExists, snapshots, snapClock>>

\* SnapshotService.create: graph_data = await self.export_all(graph_name)
SnapshotExport ==
    /\ op.pc = "snap_export"
    /\ \E ok \in CypherOutcomes :
         op' = IF ok
               THEN [op EXCEPT !.pc = "snap_insert", !.exported = export_all(nodes, edges)]
               ELSE Respond(op, 500)
    /\ UNCHANGED <<ingestVars, tenantVars, scriptVars, graphVars, graphExists, snapshots, snapClock, opsLeft>>

\* SnapshotService.create: INSERT INTO public.kg_snapshots ... RETURNING
SnapshotInsert ==
    /\ op.pc = "snap_insert"
    /\ \E ok \in BOOLEAN :
         IF ok
         THEN /\ snapshots' = snapshots \cup
                    {[id |-> snapClock, project_id |-> "p1", trigger |-> op.trigger,
                      graph_data |-> op.exported,
                      entity_count |-> Len(op.exported.entities),
                      relationship_count |-> Len(op.exported.relationships),
                      created_at |-> snapClock]}
              /\ snapClock' = snapClock + 1
              /\ op' = [op EXCEPT !.pc = "snap_prune", !.row_id = snapClock]
         ELSE /\ op' = Respond(op, 500)
              /\ UNCHANGED <<snapshots, snapClock>>
    /\ UNCHANGED <<ingestVars, tenantVars, scriptVars, graphVars, graphExists, opsLeft>>

\* A prune that orders by created_at ASC: it keeps the oldest rows
prune_oldest_first(rows, project_id) ==
    {r \in rows :
        \/ r.project_id # project_id
        \/ Cardinality({x \in rows : /\ x.project_id = project_id
                                     /\ x.created_at < r.created_at})
             < MAX_SNAPSHOTS_PER_PROJECT}

\* SnapshotService._prune: DELETE ... WHERE id IN (SELECT id ... WHERE
\* project_id = p ORDER BY created_at DESC OFFSET MAX_SNAPSHOTS_PER_PROJECT)
prune(rows, project_id) ==
    {r \in rows :
        \/ r.project_id # project_id
        \/ Cardinality({x \in rows : /\ x.project_id = project_id
                                     /\ x.created_at > r.created_at})
             < MAX_SNAPSHOTS_PER_PROJECT}

\* SnapshotService.create returns the row to its caller
AfterCreate(o) ==
    IF o.after = "return" THEN Respond(o, 201) ELSE [o EXCEPT !.pc = o.after]

\* SnapshotService.create: await self._prune(project_id); return dict(row)
SnapshotPrune ==
    /\ op.pc = "snap_prune"
    /\ \E ok \in BOOLEAN :
         IF ok
         THEN /\ snapshots' = prune(snapshots, "p1")
              /\ op' = AfterCreate(op)
         ELSE /\ op' = Respond(op, 500)
              /\ UNCHANGED snapshots
    /\ UNCHANGED <<ingestVars, tenantVars, scriptVars, graphVars, graphExists, snapClock, opsLeft>>

\* The snapshot ids a restore request names: the oldest and the newest
\* snapshot of the project, and an id no row has.
RestoreTargets ==
    LET mine == {r \in snapshots : r.project_id = "p1"}
    IN {0} \cup {r.id : r \in {x \in mine : \/ \A y \in mine : x.created_at <= y.created_at
                                            \/ \A y \in mine : x.created_at >= y.created_at}}

\* A restore that drops the graph without taking the safety snapshot
AfterLoad_drop_first == "restore_drop"

\* SnapshotService.restore, after loading the snapshot: 1. safety snapshot
AfterLoad == "snap_export"

\* POST /snapshots/{id}/restore: snapshot = await self.get(snapshot_id)
restore_snapshot(snapshot_id) ==
    /\ \E ok \in BOOLEAN :
         LET o == [IdleOp EXCEPT !.kind = "restore", !.snapshot_id = snapshot_id,
                                 !.before = [nodes |-> nodes, edges |-> edges]]
             found == {r \in snapshots : r.id = snapshot_id}
         IN StartOp(IF ~ok THEN Respond(o, 500)
                    ELSE IF found = {} THEN Respond(o, 404)
                    ELSE [o EXCEPT !.graph_data = (CHOOSE r \in found : TRUE).graph_data,
                                   !.trigger = "auto_pre_restore",
                                   !.after = "restore_drop",
                                   !.pc = AfterLoad])
    /\ UNCHANGED <<ingestVars, tenantVars, scriptVars, graphVars, graphExists, snapshots, snapClock>>

\* SnapshotService.restore: await self.graph.drop_graph(graph_name); drop_graph
\* catches every exception and returns False, restore ignores the result.
RestoreDrop ==
    /\ op.pc = "restore_drop"
    /\ \E ok \in CypherOutcomes :
         IF ok
         THEN /\ nodes' = {}
              /\ edges' = {}
              /\ nextNodeId' = 1
              /\ nextEdgeId' = 1
              /\ graphExists' = FALSE
         ELSE UNCHANGED <<graphVars, graphExists>>
    /\ op' = [op EXCEPT !.pc = "restore_create"]
    /\ UNCHANGED <<ingestVars, tenantVars, scriptVars, snapshots, snapClock, opsLeft>>

\* A restore that turns to the relationships once two entities exist
RestoreLoop_interleaved(o) ==
    IF o.j >= 2 /\ o.k < Len(o.graph_data.relationships) THEN [o EXCEPT !.pc = "restore_rel"]
    ELSE IF o.j < Len(o.graph_data.entities) THEN [o EXCEPT !.pc = "restore_entity"]
    ELSE Respond(o, 200)

\* The step of restore after the entity and relationship loops have handled
\* j entities and k relationships
RestoreLoop(o) ==
    IF o.j < Len(o.graph_data.entities) THEN [o EXCEPT !.pc = "restore_entity"]
    ELSE IF o.k < Len(o.graph_data.relationships) THEN [o EXCEPT !.pc = "restore_rel"]
    ELSE Respond(o, 200)

\* SnapshotService.restore: await self.graph.create_graph(graph_name);
\* "already exists" counts as created.
RestoreCreateGraph ==
    /\ op.pc = "restore_create"
    /\ \E ok \in BOOLEAN :
         IF ok
         THEN /\ graphExists' = TRUE
              /\ op' = RestoreLoop(op)
         ELSE /\ op' = Respond(op, 500)
              /\ UNCHANGED graphExists
    /\ UNCHANGED <<ingestVars, tenantVars, scriptVars, graphVars, snapshots, snapClock, opsLeft>>

\* SnapshotService.restore, 3.: props.pop("name"); create_entity; old_to_new
RestoreEntity ==
    /\ op.pc = "restore_entity"
    /\ \E ok \in CypherOutcomes :
         IF ok
         THEN LET e == op.graph_data.entities[op.j + 1]
                  props == [k \in (DOMAIN e.properties) \ {"name"} |-> e.properties[k]]
              IN /\ nodes' = nodes \cup {create_entity_node(nextNodeId, e.type, e.name, props)}
                 /\ nextNodeId' = nextNodeId + 1
                 /\ op' = RestoreLoop([op EXCEPT
                             !.old_to_new = (e.age_id :> nextNodeId) @@ @,
                             !.entities_restored = @ + 1,
                             !.j = @ + 1])
         ELSE /\ op' = Respond(op, 500)
              /\ UNCHANGED <<nodes, nextNodeId>>
    /\ UNCHANGED <<ingestVars, tenantVars, scriptVars, edges, nextEdgeId, graphExists, snapshots, snapClock, opsLeft>>

\* SnapshotService.restore, 4.: a relationship whose source or target is not
\* in old_to_new is skipped, the others are created.
RestoreRelationship ==
    /\ op.pc = "restore_rel"
    /\ LET rel == op.graph_data.relationships[op.k + 1]
           m == op.old_to_new
       IN IF rel.source_id \notin DOMAIN m \/ rel.target_id \notin DOMAIN m
          THEN /\ op' = RestoreLoop([op EXCEPT !.k = @ + 1])
               /\ UNCHANGED <<edges, nextEdgeId>>
          ELSE \E ok \in CypherOutcomes :
                 IF ok
                 THEN LET new == create_relationship_edges(nodes, nextEdgeId,
                                     m[rel.source_id], m[rel.target_id],
                                     rel.type, rel.properties)
                      IN /\ edges' = edges \cup new
                         /\ nextEdgeId' = nextEdgeId + Cardinality(new)
                         /\ op' = RestoreLoop([op EXCEPT
                                     !.relationships_restored = @ + 1,
                                     !.k = @ + 1])
                 ELSE /\ op' = Respond(op, 500)
                      /\ UNCHANGED <<edges, nextEdgeId>>
    /\ UNCHANGED <<ingestVars, tenantVars, scriptVars, nodes, nextNodeId, graphExists, snapshots, snapClock, opsLeft>>

\* batch_delete_entities and deduplicate_entities: project = SELECT id FROM
\* public.projects WHERE slug = %s; if project: await snapshot_service.create
SnapshotProject ==
    /\ op.pc = "snap_project"
    /\ \E ok \in BOOLEAN :
         op' = IF ~ok THEN Respond(op, 500)
               ELSE IF RowsOf("p1") # {} THEN [op EXCEPT !.pc = "snap_export"]
               ELSE [op EXCEPT !.pc = op.after]
    /\ UNCHANGED <<ingestVars, tenantVars, scriptVars, graphVars, graphExists, snapshots, snapClock, opsLeft>>

\* An entity id on the wire is a string: a sequence of the symbols
\* "entity_", "chunk_", the digits, "-" and a letter
DigitChars == << "0", "1", "2", "3", "4", "5", "6", "7", "8", "9" >>
IdDigits == {DigitChars[i] : i \in DOMAIN DigitChars}

\* cleaned.startswith(prefix): cleaned = cleaned[len(prefix):], for "entity_"
\* and then for "chunk_"
strip_prefixes(entity_id) ==
    LET once(cleaned, prefix) ==
            IF cleaned # << >> /\ cleaned[1] = prefix THEN Tail(cleaned) ELSE cleaned
    IN once(once(entity_id, "entity_"), "chunk_")

\* The digits of an integer literal: all of it but a leading sign
literal_digits(cleaned) ==
    IF cleaned # << >> /\ cleaned[1] = "-" THEN Tail(cleaned) ELSE cleaned

\* int(cleaned) does not raise ValueError
int_parses(cleaned) ==
    /\ literal_digits(cleaned) # << >>
    /\ \A i \in 1..Len(literal_digits(cleaned)) : literal_digits(cleaned)[i] \in IdDigits

\* int(cleaned)
RECURSIVE int_of_digits(_)
int_of_digits(ds) ==
    IF ds = << >> THEN 0
    ELSE 10 * int_of_digits(SubSeq(ds, 1, Len(ds) - 1))
         + (CHOOSE v \in 0..9 : DigitChars[v + 1] = ds[Len(ds)])

\* _validate_id raises ValueError("Invalid entity ID: ...")
raises_ValueError(entity_id) == ~int_parses(strip_prefixes(entity_id))

\* _validate_id: the integer of an id that parses
_validate_id(entity_id) ==
    LET cleaned == strip_prefixes(entity_id)
    IN IF cleaned[1] = "-" THEN 0 - int_of_digits(Tail(cleaned))
       ELSE int_of_digits(cleaned)

\* DELETE /entities/batch: the ids a request names
BatchChoices == {{<< "1" >>}, {<< "1" >>, << "entity_", "2" >>}}

\* DELETE /entities/batch: snapshot first, then graph.batch_delete
batch_delete_entities(entity_ids) ==
    /\ \E ok \in BOOLEAN :
         LET o == [IdleOp EXCEPT !.kind = "batch_delete", !.entity_ids = entity_ids,
                                 !.trigger = "auto_pre_batch_delete",
                                 !.after = "batch_delete",
                                 !.before = [nodes |-> nodes, edges |-> edges]]
         IN StartOp(IF ~ok THEN Respond(o, 500)
                    ELSE IF RowsOf("p1") = {} THEN Respond(o, 404)
                    ELSE [o EXCEPT !.pc = "snap_project"])
    /\ UNCHANGED <<ingestVars, tenantVars, scriptVars, graphVars, graphExists, snapshots, snapClock>>

\* GraphService.batch_delete: safe_ids = [str(_validate_id(eid)) ...], an
\* unhandled ValueError being answered 500; then MATCH (n) WHERE id(n) IN
\* [...] DETACH DELETE n
BatchDelete ==
    /\ op.pc = "batch_delete"
    /\ IF \E eid \in op.entity_ids : raises_ValueError(eid)
       THEN /\ op' = Respond(op, 500)
            /\ UNCHANGED <<nodes, edges>>
       ELSE \E ok \in CypherOutcomes :
               IF ok
               THEN LET safe_ids == {_validate_id(eid) : eid \in op.entity_ids}
                    IN /\ nodes' = detach_delete_nodes(nodes, safe_ids)
                       /\ edges' = detach_delete_edges(edges, safe_ids)
                       /\ op' = [Respond(op, 200) EXCEPT !.sent = TRUE]
               ELSE /\ op' = [Respond(op, 500) EXCEPT !.sent = TRUE]
                    /\ UNCHANGED <<nodes, edges>>
    /\ UNCHANGED <<ingestVars, tenantVars, scriptVars, nextNodeId, nextEdgeId, graphExists, snapshots,
                   snapClock, opsLeft>>

\* A deduplicate that goes on whenever dry_run is false
merges_when_not_dry(dry_run, groups) == ~dry_run

\* line 179: if not dedup.dry_run and groups
merges(dry_run, groups) == ~dry_run /\ groups # << >>

\* POST /entities/deduplicate: find_duplicates, the groups, and, unless
\* dry_run or no group, the snapshot that precedes the merges
deduplicate_entities(dry_run) ==
    /\ \E ok \in CypherOutcomes :
         LET groups == find_duplicates(nodes)
             o == [IdleOp EXCEPT !.kind = "deduplicate", !.dry_run = dry_run,
                                 !.before = [nodes |-> nodes, edges |-> edges]]
         IN StartOp(IF RowsOf("p1") = {} THEN Respond(o, 404)
                    ELSE IF ~ok THEN Respond(o, 500)
                    ELSE IF ~merges(dry_run, groups)
                    THEN Respond([o EXCEPT !.groups = groups], 200)
                    ELSE [o EXCEPT !.groups = groups, !.g = 1, !.ri = 1,
                                   !.pc = "snap_project",
                                   !.trigger = "auto_pre_deduplicate",
                                   !.after = "merge_read"])
    /\ UNCHANGED <<ingestVars, tenantVars, scriptVars, graphVars, graphExists, snapshots, snapClock>>

\* A merge that re-points the outgoing relationships only
Repointed_outgoing_only(es, dir, keep, remove) ==
    IF dir = "out" THEN {e \in es : e.src = remove /\ e.tgt # keep} ELSE {}

\* merge_duplicates: the relationships of the removed node that one
\* direction re-points: MATCH (old)-[r]->(target) WHERE id(old) = remove AND
\* id(target) <> keep, or MATCH (source)-[r]->(old) WHERE ... id(source) <> keep
Repointed(es, dir, keep, remove) ==
    IF dir = "out" THEN {e \in es : e.src = remove /\ e.tgt # keep}
    ELSE {e \in es : e.tgt = remove /\ e.src # keep}

\* merge_duplicates: the end of a try block, by completion or by exception
AfterRewire(o) ==
    IF o.dir = "out" THEN [o EXCEPT !.dir = "in", !.pc = "merge_read"]
    ELSE [o EXCEPT !.pc = "merge_delete_node"]

\* A merge that gives up when a re-pointing query raises
RewireAborts(o) == Respond([o EXCEPT !.rewire_failed = TRUE], 500)

\* merge_duplicates: except Exception: logger.warning(...)
RewireFailed(o) == AfterRewire([o EXCEPT !.rewire_failed = TRUE])

\* merge_duplicates: rels = await execute_cypher(MATCH ... RETURN ...)
MergeRead ==
    /\ op.pc = "merge_read"
    /\ \E ok \in CypherOutcomes :
         op' = IF ok
               THEN LET grp == op.groups[op.g]
                        rels == list_relationships(
                                    Repointed(edges, op.dir, grp.recommended_keep,
                                              grp.remove_ids[op.ri]))
                    IN IF rels = << >> THEN AfterRewire(op)
                       ELSE [op EXCEPT !.rels = rels, !.k = 0, !.pc = "merge_create"]
               ELSE RewireFailed(op)
    /\ UNCHANGED <<ingestVars, tenantVars, scriptVars, graphVars, graphExists, snapshots, snapClock, opsLeft>>

\* merge_duplicates: for r in rels: CREATE (keeper)-[nr:rtype props]->(target)
\* or CREATE (source)-[nr:rtype props]->(keeper)
MergeCreate ==
    /\ op.pc = "merge_create"
    /\ \E ok \in CypherOutcomes :
         IF ok
         THEN LET keep == op.groups[op.g].recommended_keep
                  r == op.rels[op.k + 1]
                  new == IF op.dir = "out"
                         THEN create_relationship_edges(nodes, nextEdgeId, keep, r.tgt,
                                                        r.label, r.props)
                         ELSE create_relationship_edges(nodes, nextEdgeId, r.src, keep,
                                                        r.label, r.props)
              IN /\ edges' = edges \cup new
                 /\ nextEdgeId' = nextEdgeId + Cardinality(new)
                 /\ op' = [op EXCEPT !.k = @ + 1,
                                     !.pc = IF op.k + 1 < Len(op.rels)
                                            THEN "merge_create" ELSE "merge_delete"]
         ELSE /\ op' = RewireFailed(op)
              /\ UNCHANGED <<edges, nextEdgeId>>
    /\ UNCHANGED <<ingestVars, tenantVars, scriptVars, nodes, nextNodeId, graphExists, snapshots, snapClock, opsLeft>>

\* merge_duplicates: if rels: MATCH ... DELETE r
MergeDelete ==
    /\ op.pc = "merge_delete"
    /\ \E ok \in CypherOutcomes :
         IF ok
         THEN LET grp == op.groups[op.g]
              IN /\ edges' = edges \ Repointed(edges, op.dir, grp.recommended_keep,
                                               grp.remove_ids[op.ri])
                 /\ op' = AfterRewire(op)
         ELSE /\ op' = RewireFailed(op)
              /\ UNCHANGED edges
    /\ UNCHANGED <<ingestVars, tenantVars, scriptVars, nodes, nextNodeId, nextEdgeId, graphExists, snapshots,
                   snapClock, opsLeft>>

\* merge_duplicates: await self.delete_entity(remove); then the next removed
\* node, the next group, or the response
MergeDeleteNode ==
    /\ op.pc = "merge_delete_node"
    /\ \E ok \in CypherOutcomes :
         IF ok
         THEN LET grp == op.groups[op.g]
                  gone == {grp.remove_ids[op.ri]}
              IN /\ nodes' = detach_delete_nodes(nodes, gone)
                 /\ edges' = detach_delete_edges(edges, gone)
                 /\ op' = IF op.ri < Len(grp.remove_ids)
                          THEN [op EXCEPT !.ri = @ + 1, !.dir = "out", !.pc = "merge_read"]
                          ELSE IF op.g < Len(op.groups)
                          THEN [op EXCEPT !.g = @ + 1, !.ri = 1, !.dir = "out",
                                          !.pc = "merge_read",
                                          !.merged = @ + Len(grp.remove_ids)]
                          ELSE Respond([op EXCEPT !.merged = @ + Len(grp.remove_ids)], 200)
         ELSE /\ op' = Respond(op, 500)
              /\ UNCHANGED <<nodes, edges>>
    /\ UNCHANGED <<ingestVars, tenantVars, scriptVars, nextNodeId, nextEdgeId, graphExists, snapshots,
                   snapClock, opsLeft>>

\* ------------------------------------------------------------------------
\* Snapshot, restore, batch delete and deduplicate requests on one project
\* ------------------------------------------------------------------------

\* A graph as the API builds it: Alpha, Beta, Other, and Beta USES Alpha
ComponentGraph ==
    [nodes |-> {create_entity_node(1, "Component", "Alpha", << >>),
                create_entity_node(2, "Component", "Beta", [layer |-> "core"]),
                create_entity_node(3, "Concept", "Other", << >>)},
     edges |-> create_relationship_edges(
                   {[id |-> 1], [id |-> 2]}, 1, 2, 1, "USES", << >>)]

\* Two Widget nodes created apart and a node that depends on the second
WidgetGraph ==
    [nodes |-> {create_entity_node(1, "Component", "Widget", [a |-> "1"]),
                create_entity_node(2, "Component", "Widget", [b |-> "2"]),
                create_entity_node(3, "Component", "Other", << >>)},
     edges |-> create_relationship_edges(
                   {[id |-> 2], [id |-> 3]}, 1, 3, 2, "DEPENDS_ON", << >>)]

LiveGraphs == {[nodes |-> {}, edges |-> {}], ComponentGraph, WidgetGraph}

\* graph_data of the snapshots taken before the behaviour starts: the export
\* of ComponentGraph, and, on odd rows, an export whose relationship list
\* was read after a node and a relationship had been added to the graph
\* (export_all reads the entities first, then the relationships).
StoredExport(i) ==
    LET clean == export_all(ComponentGraph.nodes, ComponentGraph.edges)
        late == [age_id |-> 2, source_id |-> 2, target_id |-> 4, type |-> "USES",
                 properties |-> << >>]
    IN IF i % 2 = 0 THEN clean
       ELSE [clean EXCEPT !.relationships = Append(@, late)]

\* The snapshot table with n earlier snapshots of the project, and one
\* snapshot of another project that is older than all of them
StoredSnapshots(n) ==
    {[id |-> 1, project_id |-> "p2", trigger |-> "manual",
      graph_data |-> EmptyExport, entity_count |-> 0, relationship_count |-> 0,
      created_at |-> 1]}
    \cup
    {[id |-> i + 1, project_id |-> "p1", trigger |-> "manual",
      graph_data |-> StoredExport(i),
      entity_count |-> Len(StoredExport(i).entities),
      relationship_count |-> Len(StoredExport(i).relationships),
      created_at |-> i + 1] : i \in 1..n}

InitGraph ==
    /\ documents = [d \in Docs |-> NewDocument([text |-> FALSE, nchunks |-> 0])]
    /\ chunks = {}
    /\ points = {}
    /\ req = [r \in Requests |-> IdleReq]
    /\ nextRun = 0
    /\ failedDeletes = {}
    /\ extractionClient = FALSE
    /\ \E g \in LiveGraphs :
         /\ nodes = g.nodes
         /\ edges = g.edges
         /\ nextNodeId = Cardinality(g.nodes) + 1
         /\ nextEdgeId = Cardinality(g.edges) + 1
    /\ graphExists = TRUE
    /\ \E n \in {0, MAX_SNAPSHOTS_PER_PROJECT - 1, MAX_SNAPSHOTS_PER_PROJECT} :
         /\ snapshots = StoredSnapshots(n)
         /\ snapClock = n + 2
    /\ op = IdleOp
    /\ opsLeft = MaxOps
    /\ field_nodes = << >>
    /\ agent_presence = << >>
    /\ state_file = << >>
    /\ projects = {ProjectRow("p1", 0)}
    /\ graphs = {}
    /\ collections = {}

NextGraph ==
    \/ create_snapshot
    \/ \E snapshot_id \in RestoreTargets : restore_snapshot(snapshot_id)
    \/ \E entity_ids \in BatchChoices : batch_delete_entities(entity_ids)
    \/ \E dry_run \in BOOLEAN : deduplicate_entities(dry_run)
    \/ SnapshotProject
    \/ SnapshotExport
    \/ SnapshotInsert
    \/ SnapshotPrune
    \/ RestoreDrop
    \/ RestoreCreateGraph
    \/ RestoreEntity
    \/ RestoreRelationship
    \/ BatchDelete
    \/ MergeRead
    \/ MergeCreate
    \/ MergeDelete
    \/ MergeDeleteNode

SpecGraph == InitGraph /\ [][NextGraph]_vars

\* ------------------------------------------------------------------------
\* Claims on snapshots and restore
\* ------------------------------------------------------------------------

\* C36 (restore keeps its source): when a restore has returned, the
\* snapshot it restored is still a row of the snapshot table, whatever the
\* number of snapshots the project held and whatever the age of the
\* restored one among them.
C36_RestoreKeepsSource ==
    (op.kind = "restore" /\ op.pc = "done" /\ op.status = 200)
        => \E r \in snapshots : r.id = op.snapshot_id

\* A deduplicate request that was asked for a dry run, or that found the
\* graph without duplicates when it started
NothingToMerge(o) ==
    /\ o.kind = "deduplicate"
    /\ o.dry_run \/ find_duplicates(o.before.nodes) = << >>

\* C32 (deduplicate frame): no step of a deduplicate request with
\* dry_run = true, or with dry_run = false on a graph without duplicate
\* groups, changes the graph or the snapshot table, and the request reports
\* merged = 0; snapshot and graph change only for dry_run = false with at
\* least one group.
C32_DeduplicateFrame ==
    [][NothingToMerge(op') =>
          /\ nodes' = nodes /\ edges' = edges
          /\ snapshots' = snapshots
          /\ op'.merged = 0]_vars

\* A deduplicate with dry_run = false has answered 200 on a graph that
\* holds entities and no duplicate group
C32_Witness ==
    /\ op.kind = "deduplicate" /\ ~op.dry_run
    /\ op.pc = "done" /\ op.status = 200
    /\ op.groups = << >> /\ op.merged = 0
    /\ nodes = ComponentGraph.nodes

ProjectRows(rows) == {r \in rows : r.project_id = "p1"}

\* C4 (snapshot retention): when the prune of SnapshotService.create has run
\* and create returns, whatever its trigger, the project holds at most
\* MAX_SNAPSHOTS_PER_PROJECT snapshot rows, every removed row is a row of
\* the project that is older than every row kept, and the rows of other
\* projects are untouched.
C4_SnapshotRetention ==
    [][ (op.pc = "snap_prune" /\ ~(op'.pc = "done" /\ op'.status = 500))
        => /\ Cardinality(ProjectRows(snapshots')) <= MAX_SNAPSHOTS_PER_PROJECT
           /\ snapshots' \subseteq snapshots
           /\ \A gone \in snapshots \ snapshots' :
                 /\ gone.project_id = "p1"
                 /\ \A kept \in ProjectRows(snapshots') :
                       gone.created_at < kept.created_at
      ]_vars

\* A create has returned after its prune removed the oldest row of the
\* project: twenty rows remain, the other project's row among the rest.
C4_Witness ==
    /\ op.kind = "create_snapshot" /\ op.pc = "done" /\ op.status = 201
    /\ Cardinality(ProjectRows(snapshots)) = MAX_SNAPSHOTS_PER_PROJECT
    /\ \A r \in snapshots : r.id # 2
    /\ \E r \in snapshots : r.id = op.row_id
    /\ \E r \in snapshots : r.project_id = "p2"

\* C5 (restore ordering): a step of a restore that creates a relationship
\* is taken only when every entity of the snapshot has been created.
C5_RestoreOrdering ==
    [][ (op.kind = "restore" /\ edges' # edges /\ edges' # {})
        => /\ op.j = Len(op.graph_data.entities)
           /\ \A i \in 1..Len(op.graph_data.entities) :
                 /\ op.graph_data.entities[i].age_id \in DOMAIN op.old_to_new
                 /\ \E n \in nodes :
                       n.id = op.old_to_new[op.graph_data.entities[i].age_id]
      ]_vars

\* A restore has recreated three entities and then a relationship
C5_Witness ==
    /\ op.kind = "restore" /\ op.pc = "done" /\ op.status = 200
    /\ op.entities_restored = 3
    /\ op.relationships_restored = 1
    /\ edges # {}

\* C6 (restore safety net): restore touches the graph only after a snapshot
\* with trigger auto_pre_restore holding the graph as it was has been
\* persisted, and that snapshot is still there whatever later step fails.
C6_RestoreSafetyNet ==
    op.kind = "restore"
    => /\ ( \/ op.pc \in {"restore_drop", "restore_create", "restore_entity", "restore_rel"}
            \/ nodes # op.before.nodes
            \/ edges # op.before.edges )
          => op.row_id # 0
       /\ op.row_id # 0
          => \E r \in snapshots :
                /\ r.id = op.row_id
                /\ r.project_id = "p1"
                /\ r.trigger = "auto_pre_restore"
                /\ r.graph_data = export_all(op.before.nodes, op.before.edges)

\* A restore of a non-empty graph has failed after the drop, while it was
\* recreating entities
C6_Witness ==
    /\ op.kind = "restore" /\ op.pc = "done" /\ op.status = 500
    /\ op.before.nodes # {}
    /\ op.entities_restored >= 1
    /\ \E r \in snapshots : r.id = op.row_id /\ r.trigger = "auto_pre_restore"

\* The relationships of a snapshot whose source or target is not one of its
\* entities
Unrestorable(graph_data) ==
    LET ids == {graph_data.entities[i].age_id : i \in 1..Len(graph_data.entities)}
    IN {i \in 1..Len(graph_data.relationships) :
           \/ graph_data.relationships[i].source_id \notin ids
           \/ graph_data.relationships[i].target_id \notin ids}

\* C7 (restore result): after a restore of snapshot S has completed, the
\* graph holds as many entities as S records, as many relationships as S
\* records minus those whose source or target was not recreated, and
\* nothing else: every node is one the restore created.
C7_RestoreResult ==
    (op.kind = "restore" /\ op.pc = "done" /\ op.status = 200)
    => /\ Cardinality(nodes) = Len(op.graph_data.entities)
       /\ Cardinality(edges) = Len(op.graph_data.relationships)
                               - Cardinality(Unrestorable(op.graph_data))
       /\ {n.id : n \in nodes} =
              {op.old_to_new[a] : a \in DOMAIN op.old_to_new}

\* ------------------------------------------------------------------------
\* Claims on deduplication
\* ------------------------------------------------------------------------

\* The first request of the behaviour was a deduplicate with dry_run = false
\* on the graph of two Widget nodes {a: 1} and {b: 2} and an Other node with
\* a DEPENDS_ON edge to the second Widget; it answered 200 and no
\* re-pointing query of its merge raised.
WidgetsDeduplicated ==
    /\ op.kind = "deduplicate" /\ ~op.dry_run
    /\ op.pc = "done" /\ op.status = 200
    /\ opsLeft = MaxOps - 1
    /\ op.before = WidgetGraph
    /\ ~op.rewire_failed

\* One Widget node is left, with the given property bag; Other has a
\* DEPENDS_ON edge to it; the request took exactly one pre-dedup snapshot.
WidgetsMergedInto(bag) ==
    LET widgets == {n \in nodes : toLower(n.props.name) = "widget"}
    IN /\ Cardinality(widgets) = 1
       /\ \A w \in widgets :
             /\ w.props = bag
             /\ \E e \in edges : e.label = "DEPENDS_ON" /\ e.src = 3 /\ e.tgt = w.id
       /\ Cardinality({r \in snapshots : r.trigger = "auto_pre_deduplicate"}) = 1

\* C10 as stated (deduplicate scenario): the surviving Widget retains the
\* properties of both nodes, {a: 1, b: 2}.
C10_DedupMergesProperties ==
    WidgetsDeduplicated
    => WidgetsMergedInto([name |-> "Widget", a |-> "1", b |-> "2"])

\* C10 (deduplicate scenario): the surviving Widget is the one created
\* first and keeps its own properties {a: 1}; the DEPENDS_ON edge points to
\* it and exactly one pre-dedup snapshot exists.
C10_DedupKeepsKeeperProperties ==
    WidgetsDeduplicated
    => /\ WidgetsMergedInto([name |-> "Widget", a |-> "1"])
       /\ \E n \in nodes : n.id = 1 /\ n.props.name = "Widget"

\* The scenario has run to its response
C10_Witness ==
    /\ WidgetsDeduplicated
    /\ op.merged = 1
    /\ Cardinality(nodes) = 2
    /\ Cardinality(edges) = 1

\* ------------------------------------------------------------------------
\* One deduplicate request on graphs with one group of duplicates
\* ------------------------------------------------------------------------

\* relationships of a graph before the merge
MaxEdges == 2

\* Node sets with one duplicate group: Widget twice (keeper 1), Widget three
\* times under two spellings (keeper 1), Widget twice among others (keeper 2)
MergeNodeSets ==
    { WidgetGraph.nodes,
      {create_entity_node(1, "Component", "Widget", [a |-> "1"]),
       create_entity_node(2, "Component", "widget", << >>),
       create_entity_node(3, "Component", "Widget", [b |-> "2"]),
       create_entity_node(4, "Component", "Other", << >>)},
      {create_entity_node(1, "Component", "Other", << >>),
       create_entity_node(2, "Component", "Widget", << >>),
       create_entity_node(3, "Component", "Alpha", << >>),
       create_entity_node(4, "Component", "Widget", [b |-> "2"])} }

\* The relationship from s to t of such a graph
MergeEdge(ns, s, t) ==
    [id |-> (s - 1) * Cardinality(ns) + t, src |-> s, tgt |-> t,
     label |-> IF s < t THEN "DEPENDS_ON" ELSE "USES",
     props |-> IF s = t THEN << >> ELSE [weight |-> "1"]]

InitMerge ==
    /\ documents = [d \in Docs |-> NewDocument([text |-> FALSE, nchunks |-> 0])]
    /\ chunks = {}
    /\ points = {}
    /\ req = [r \in Requests |-> IdleReq]
    /\ nextRun = 0
    /\ failedDeletes = {}
    /\ extractionClient = FALSE
    /\ \E ns \in MergeNodeSets :
         LET ids == {n.id : n \in ns}
         IN /\ nodes = ns
            /\ \E pairs \in SUBSET (ids \X ids) :
                 /\ Cardinality(pairs) <= MaxEdges
                 /\ edges = {MergeEdge(ns, p[1], p[2]) : p \in pairs}
            /\ nextNodeId = Cardinality(ns) + 1
            /\ nextEdgeId = Cardinality(ns) * Cardinality(ns) + 1
    /\ graphExists = TRUE
    /\ snapshots = {}
    /\ snapClock = 1
    /\ op = IdleOp
    /\ opsLeft = 1
    /\ field_nodes = << >>
    /\ agent_presence = << >>
    /\ state_file = << >>
    /\ projects = {ProjectRow("p1", 0)}
    /\ graphs = {}
    /\ collections = {}

NextMerge ==
    \/ \E dry_run \in BOOLEAN : deduplicate_entities(dry_run)
    \/ SnapshotProject
    \/ SnapshotExport
    \/ SnapshotInsert
    \/ SnapshotPrune
    \/ MergeRead
    \/ MergeCreate
    \/ MergeDelete
    \/ MergeDeleteNode

SpecMerge == InitMerge /\ [][NextMerge]_vars

\* The ids a deduplicate request was to remove
RemoveIds(o) ==
    UNION {{o.groups[g].remove_ids[i] : i \in 1..Len(o.groups[g].remove_ids)} :
              g \in 1..Len(o.groups)}

\* C33 (merge tolerates rewiring failure): a re-pointing query of
\* merge_duplicates, whether it succeeds or raises, never ends the request:
\* the merge goes on with the same removed node, up to its deletion; and
\* when the request has answered 200 after a failed re-pointing, every
\* node that was to be removed is deleted and counted in merged.
C33_MergeToleratesRewiringFailure ==
    [][/\ op.pc \in {"merge_read", "merge_create", "merge_delete"} =>
              /\ op'.pc \in {"merge_read", "merge_create", "merge_delete",
                              "merge_delete_node"}
              /\ op'.g = op.g /\ op'.ri = op.ri
       /\ (op'.kind = "deduplicate" /\ op'.pc = "done" /\ op'.status = 200
              /\ op'.rewire_failed) =>
              /\ {n.id : n \in nodes'} \cap RemoveIds(op') = {}
              /\ op'.merged = Cardinality(RemoveIds(op'))]_vars

\* A merge of three Widget nodes answered 200 although a re-pointing query
\* raised: both removed nodes are gone
C33_Witness ==
    /\ op.kind = "deduplicate" /\ op.pc = "done" /\ op.status = 200
    /\ op.rewire_failed
    /\ op.merged = 2
    /\ Cardinality(nodes) = Cardinality(op.before.nodes) - 2
    /\ op.before.edges # {}

\* merge_duplicates(K, R) has returned: the deduplicate request, whose one
\* group is K and R, has answered 200
Merged ==
    /\ op.kind = "deduplicate" /\ ~op.dry_run
    /\ op.pc = "done" /\ op.status = 200
    /\ Len(op.groups) = 1

\* The nodes other than K and R at the far end of a relationship of n
OtherEndpoints(es, n) ==
    LET grp == op.groups[1]
        merged == {grp.recommended_keep} \cup
                  {grp.remove_ids[i] : i \in 1..Len(grp.remove_ids)}
    IN ({e.tgt : e \in {x \in es : x.src = n}} \cup
        {e.src : e \in {x \in es : x.tgt = n}}) \ merged

\* K is connected to what K and the nodes of R were connected to, and the
\* graph has |R| nodes less
ConnectivityPreserved ==
    LET grp == op.groups[1]
        R == {grp.remove_ids[i] : i \in 1..Len(grp.remove_ids)}
    IN /\ OtherEndpoints(edges, grp.recommended_keep) =
              UNION {OtherEndpoints(op.before.edges, n) :
                        n \in {grp.recommended_keep} \cup R}
       /\ Cardinality(nodes) = Cardinality(op.before.nodes) - Cardinality(R)

\* C9 as stated (merge preserves connectivity): after every
\* merge_duplicates(K, R) that returns, K is connected to the union of the
\* other endpoints of K and of R, and |R| nodes are gone.
C9_MergePreservesConnectivity == Merged => ConnectivityPreserved

\* C9 (merge preserves connectivity): the same, for the merges in which no
\* re-pointing query raised.
C9_MergePreservesConnectivityUnlessRewireFailed ==
    (Merged /\ ~op.rewire_failed) => ConnectivityPreserved

\* A merge of two removed nodes has returned without a failed re-pointing,
\* and K gained an endpoint it was not connected to
C9_Witness ==
    /\ Merged /\ ~op.rewire_failed
    /\ Len(op.groups[1].remove_ids) = 2
    /\ OtherEndpoints(edges, op.groups[1].recommended_keep) #
           OtherEndpoints(op.before.edges, op.groups[1].recommended_keep)

\* The relationship e of a removed node has its counterpart at keeper K:
\* same other endpoint, same direction, same label, same properties
CarriedOver(e, K, R) ==
    /\ e.src \in R =>
          \E f \in edges : /\ f.src = K /\ f.tgt = e.tgt
                           /\ f.label = e.label /\ f.props = e.props
    /\ e.tgt \in R =>
          \E f \in edges : /\ f.src = e.src /\ f.tgt = K
                           /\ f.label = e.label /\ f.props = e.props

\* The relationships that touch no removed node are stored as they were
OthersUnchanged(R) ==
    {e \in op.before.edges : e.src \notin R /\ e.tgt \notin R}
        = {e \in edges : e \in op.before.edges}

\* C34 as stated (merge preserves relationships): after merge_duplicates,
\* every relationship of a removed node that does not touch the keeper has
\* a counterpart between the keeper and the same other endpoint, and the
\* relationships touching no removed node are unchanged.
C34_MergePreservesRelationships ==
    Merged =>
        LET K == op.groups[1].recommended_keep
            R == RemoveIds(op)
        IN /\ \A e \in op.before.edges :
                 ((e.src \in R \/ e.tgt \in R) /\ e.src # K /\ e.tgt # K)
                    => CarriedOver(e, K, R)
           /\ OthersUnchanged(R)

\* C34 (merge preserves relationships): the same for the merges in which no
\* re-pointing query raised and for the relationships whose other endpoint
\* is neither the keeper nor a removed node.
C34_MergePreservesOuterRelationships ==
    (Merged /\ ~op.rewire_failed) =>
        LET K == op.groups[1].recommended_keep
            R == RemoveIds(op)
        IN /\ \A e \in op.before.edges :
                 (/\ e.src \in R \/ e.tgt \in R
                  /\ e.src \notin R \cup {K} \/ e.tgt \notin R \cup {K})
                    => CarriedOver(e, K, R)
           /\ OthersUnchanged(R)

\* A merge has returned without a failed re-pointing; a relationship with
\* properties that led from another node to a removed node now leads to
\* the keeper
C34_Witness ==
    /\ Merged /\ ~op.rewire_failed
    /\ \E e \in op.before.edges :
          /\ e.tgt \in RemoveIds(op)
          /\ e.src \notin RemoveIds(op) \cup {op.groups[1].recommended_keep}
          /\ e.props # << >>
          /\ e \notin edges
          /\ \E f \in edges : /\ f.src = e.src
                               /\ f.tgt = op.groups[1].recommended_keep
                               /\ f.label = e.label /\ f.props = e.props

\* ------------------------------------------------------------------------
\* Upsert requests (PUT /entities, GraphService.upsert_entity)
\* ------------------------------------------------------------------------

\* upsert requests started in one behaviour
MaxUpserts == 3

\* The property maps a request carries
PropMaps ==
    { << >>, [color |-> "red"], [color |-> "blue"], [size |-> "L"], [color |-> NULL],
      [name |-> "Beta"] }

\* upsert_entity: if description: props["description"] = description
WithDescription(props, description) ==
    IF description = NULL THEN props
    ELSE Overlay(props, [description |-> description])

\* find_cypher of upsert_entity: MATCH (n:type) WHERE toLower(n.name) =
\* toLower(name)
find_by_key(ns, type, name) ==
    {n \in ns : /\ n.label = type
                /\ "name" \in DOMAIN n.props
                /\ toLower(n.props.name) = toLower(name)}

\* PUT /entities
upsert_entity(name, type, properties, description) ==
    /\ StartOp([IdleOp EXCEPT !.kind = "upsert", !.pc = "upsert_find",
                              !.name = name, !.type = type,
                              !.properties = properties,
                              !.description = description,
                              !.log = op.log])
    /\ UNCHANGED <<ingestVars, tenantVars, scriptVars, graphVars, graphExists, snapshots, snapClock>>

\* upsert_entity: MATCH (n:type) WHERE toLower(n.name) = toLower(name);
\* existing[0] is any of the rows
UpsertFind ==
    /\ op.pc = "upsert_find"
    /\ \E ok \in CypherOutcomes :
         IF ok
         THEN LET existing == find_by_key(nodes, op.type, op.name)
              IN IF existing = {}
                 THEN op' = [op EXCEPT !.pc = "upsert_create"]
                 ELSE \E first \in existing :
                        op' = [op EXCEPT !.pc = "upsert_update",
                                         !.existing_id = first.id,
                                         !.existing_props = first.props]
         ELSE op' = Respond(op, 500)
    /\ UNCHANGED <<ingestVars, tenantVars, scriptVars, graphVars, graphExists, snapshots, snapClock, opsLeft>>

\* The call has returned (entity, created)
Returned(o, created, merged_keys) ==
    Respond([o EXCEPT !.created = created,
                      !.merged_properties = merged_keys,
                      !.log = Append(@, [name |-> o.name, type |-> o.type,
                                         properties |-> o.properties,
                                         description |-> o.description,
                                         created |-> created,
                                         merged_properties |-> merged_keys])],
            200)

\* An upsert that reports no merged key
merged_keys_none(properties, existing_props) == {}

\* merged_keys = [k for k in entity.properties if k in existing_props]
merged_keys_of(properties, existing_props) ==
    (DOMAIN properties) \cap (DOMAIN existing_props)

\* upsert_entity, a match exists: update_entity(id, {**existing_props,
\* **entity.properties} with the description)
UpsertUpdate ==
    /\ op.pc = "upsert_update"
    /\ \E ok \in CypherOutcomes :
         IF ok
         THEN LET merged_props == WithDescription(
                                      Overlay(op.existing_props, op.properties),
                                      op.description)
              IN /\ nodes' = update_entity(nodes, op.existing_id, merged_props)
                 /\ op' = Returned(op, FALSE,
                                   merged_keys_of(op.properties, op.existing_props))
         ELSE /\ op' = Respond(op, 500)
              /\ UNCHANGED nodes
    /\ UNCHANGED <<ingestVars, tenantVars, scriptVars, edges, nextNodeId, nextEdgeId, graphExists, snapshots,
                   snapClock, opsLeft>>

\* upsert_entity, no match: create_entity with the description
UpsertCreate ==
    /\ op.pc = "upsert_create"
    /\ \E ok \in CypherOutcomes :
         IF ok
         THEN /\ nodes' = nodes \cup
                    {create_entity_node(nextNodeId, op.type, op.name,
                         WithDescription(op.properties, op.description))}
              /\ nextNodeId' = nextNodeId + 1
              /\ op' = Returned(op, TRUE, {})
         ELSE /\ op' = Respond(op, 500)
              /\ UNCHANGED <<nodes, nextNodeId>>
    /\ UNCHANGED <<ingestVars, tenantVars, scriptVars, edges, nextEdgeId, graphExists, snapshots, snapClock, opsLeft>>

InitUpsert ==
    /\ documents = [d \in Docs |-> NewDocument([text |-> FALSE, nchunks |-> 0])]
    /\ chunks = {}
    /\ points = {}
    /\ req = [r \in Requests |-> IdleReq]
    /\ nextRun = 0
    /\ failedDeletes = {}
    /\ extractionClient = FALSE
    /\ EmptyGraph
    /\ graphExists = TRUE
    /\ snapshots = {}
    /\ snapClock = 1
    /\ op = IdleOp
    /\ opsLeft = MaxUpserts
    /\ field_nodes = << >>
    /\ agent_presence = << >>
    /\ state_file = << >>
    /\ projects = {}
    /\ graphs = {}
    /\ collections = {}

NextUpsert ==
    \/ \E name \in {"Alpha", "alpha"}, properties \in PropMaps, description \in {NULL, "d"} :
          upsert_entity(name, "Component", properties, description)
    \/ UpsertFind
    \/ UpsertUpdate
    \/ UpsertCreate

SpecUpsert == InitUpsert /\ [][NextUpsert]_vars

\* The property bag that overlaying the calls' property maps from left to
\* right gives; a key whose last value is None is absent
RECURSIVE OverlayAll(_)
OverlayAll(calls) ==
    IF calls = << >> THEN << >>
    ELSE LET last == calls[Len(calls)]
         IN Overlay(OverlayAll(SubSeq(calls, 1, Len(calls) - 1)),
                    WithDescription(last.properties, last.description))

\* The properties of a bag other than name
Bag(props) == [k \in (DOMAIN props) \ {"name"} |-> props[k]]

\* C8 (upsert uniqueness): after a sequence of upsert_entity calls that all
\* use the same (lower-cased name, type), exactly one node has that key, the
\* first call returned created = true and every later call created = false,
\* and the node's property bag is the left-to-right overlay of the calls'
\* property maps.
C8_UpsertUniqueness ==
    ( /\ op.kind = "upsert" /\ op.pc = "done" /\ op.status = 200
      /\ \A i \in 1..Len(op.log) : /\ toLower(op.log[i].name) = toLower(op.name)
                                    /\ op.log[i].type = op.type )
    => LET matching == {n \in nodes : /\ n.label = op.type
                                      /\ toLower(n.props.name) = toLower(op.name)}
       IN /\ Cardinality(matching) = 1
          /\ op.log[1].created
          /\ \A i \in 2..Len(op.log) : ~op.log[i].created
          /\ \A n \in matching :
                Bag(n.props) = Bag(to_cypher_map(OverlayAll(op.log)))

\* The three upserts of the scenario have returned, on a graph that was
\* empty: Alpha (Component) with {color: red} twice, then with {size: L}
UpsertScenario ==
    /\ op.kind = "upsert" /\ op.pc = "done" /\ op.status = 200
    /\ Len(op.log) = 3
    /\ \A i \in 1..3 : /\ op.log[i].name = "Alpha"
                       /\ op.log[i].type = "Component"
                       /\ op.log[i].description = NULL
    /\ op.log[1].properties = [color |-> "red"]
    /\ op.log[2].properties = [color |-> "red"]
    /\ op.log[3].properties = [size |-> "L"]

\* One Alpha node with the properties {color: red, size: L}
SingleAlpha ==
    /\ Cardinality(nodes) = 1
    /\ \A n \in nodes : /\ n.label = "Component"
                        /\ n.props.name = "Alpha"
                        /\ Bag(n.props) = [color |-> "red", size |-> "L"]

\* C26 (upsert scenario), as stated: the three upserts leave a single Alpha
\* node with {color: red, size: L}, and the second and the third response
\* both have created = false and merged_properties = [].
C26_UpsertScenario ==
    UpsertScenario
    => /\ SingleAlpha
       /\ ~op.log[2].created /\ op.log[2].merged_properties = {}
       /\ ~op.log[3].created /\ op.log[3].merged_properties = {}

\* C26, amended: the three upserts leave a single Alpha node with {color:
\* red, size: L}; the first response has created = true, the second and the
\* third created = false; merged_properties is [color] in the second
\* response (the key was already on the node) and [] in the third.
C26_UpsertScenarioMergedKeys ==
    UpsertScenario
    => /\ SingleAlpha
       /\ op.log[1].created /\ op.log[1].merged_properties = {}
       /\ ~op.log[2].created /\ op.log[2].merged_properties = {"color"}
       /\ ~op.log[3].created /\ op.log[3].merged_properties = {}

\* The third upsert of the scenario has returned and the node has both keys
C26_Witness ==
    /\ UpsertScenario
    /\ \E n \in nodes : n.props.color = "red" /\ n.props.size = "L"

\* ------------------------------------------------------------------------
\* Upsert requests served in parallel (GraphService.upsert_entity)
\* ------------------------------------------------------------------------

\* The locals of one upsert_entity call.  raced records that the find query
\* of the call ran while another call stood between its own find query and
\* its write.
IdleUpsert ==
    [pc |-> "idle", name |-> NULL, type |-> NULL, properties |-> << >>,
     existing_id |-> 0, existing_props |-> << >>, created |-> FALSE,
     raced |-> FALSE, status |-> 0]

concurrentFrame ==
    <<documents, chunks, points, nextRun, failedDeletes, extractionClient,
      serviceVars, tenantVars, scriptVars>>

\* PUT /entities, taken by worker r
upsert_entity_by(r, name, type, properties) ==
    /\ req[r].pc = "idle"
    /\ req' = [req EXCEPT ![r] = [IdleUpsert EXCEPT !.pc = "upsert_find",
                                                    !.name = name, !.type = type,
                                                    !.properties = properties]]
    /\ UNCHANGED <<graphVars, concurrentFrame>>

\* existing = await self.db.execute_cypher(graph_name, find_cypher)
UpsertFindBy(r) ==
    /\ req[r].pc = "upsert_find"
    /\ \E ok \in CypherOutcomes :
         IF ok
         THEN LET existing == find_by_key(nodes, req[r].type, req[r].name)
                  raced == \E o \in Requests \ {r} :
                              req[o].pc \in {"upsert_create", "upsert_update"}
              IN IF existing = {}
                 THEN req' = [req EXCEPT ![r].pc = "upsert_create",
                                         ![r].raced = raced]
                 ELSE \E first \in existing :
                        req' = [req EXCEPT ![r].pc = "upsert_update",
                                           ![r].raced = raced,
                                           ![r].existing_id = first.id,
                                           ![r].existing_props = first.props]
         ELSE req' = [req EXCEPT ![r].pc = "done", ![r].status = 500]
    /\ UNCHANGED <<graphVars, concurrentFrame>>

\* await self.update_entity(graph_name, entity_id, merged_props)
UpsertUpdateBy(r) ==
    /\ req[r].pc = "upsert_update"
    /\ \E ok \in CypherOutcomes :
         IF ok
         THEN /\ nodes' = update_entity(nodes, req[r].existing_id,
                              Overlay(req[r].existing_props, req[r].properties))
              /\ req' = [req EXCEPT ![r].pc = "done", ![r].status = 200]
         ELSE /\ req' = [req EXCEPT ![r].pc = "done", ![r].status = 500]
              /\ UNCHANGED nodes
    /\ UNCHANGED <<edges, nextNodeId, nextEdgeId, concurrentFrame>>

\* result = await self.create_entity(graph_name, entity_with_desc)
UpsertCreateBy(r) ==
    /\ req[r].pc = "upsert_create"
    /\ \E ok \in CypherOutcomes :
         IF ok
         THEN /\ nodes' = nodes \cup
                    {create_entity_node(nextNodeId, req[r].type, req[r].name,
                                        req[r].properties)}
              /\ nextNodeId' = nextNodeId + 1
              /\ req' = [req EXCEPT ![r].pc = "done", ![r].status = 200,
                                    ![r].created = TRUE]
         ELSE /\ req' = [req EXCEPT ![r].pc = "done", ![r].status = 500]
              /\ UNCHANGED <<nodes, nextNodeId>>
    /\ UNCHANGED <<edges, nextEdgeId, concurrentFrame>>

InitConcurrentUpsert ==
    /\ documents = [d \in Docs |-> NewDocument([text |-> FALSE, nchunks |-> 0])]
    /\ chunks = {}
    /\ points = {}
    /\ req = [r \in Requests |-> IdleUpsert]
    /\ nextRun = 0
    /\ failedDeletes = {}
    /\ extractionClient = FALSE
    /\ EmptyGraph
    /\ graphExists = TRUE
    /\ snapshots = {}
    /\ snapClock = 1
    /\ op = IdleOp
    /\ opsLeft = 0
    /\ field_nodes = << >>
    /\ agent_presence = << >>
    /\ state_file = << >>
    /\ projects = {}
    /\ graphs = {}
    /\ collections = {}

NextConcurrentUpsert ==
    \/ \E r \in Requests, name \in {"Alpha", "alpha"}, properties \in PropMaps :
          upsert_entity_by(r, name, "Component", properties)
    \/ \E r \in Requests : UpsertFindBy(r)
    \/ \E r \in Requests : UpsertUpdateBy(r)
    \/ \E r \in Requests : UpsertCreateBy(r)

SpecConcurrentUpsert == InitConcurrentUpsert /\ [][NextConcurrentUpsert]_vars

\* Both calls have returned normally, and the find query of one of them ran
\* between the find query and the write of the other
BothUpserted ==
    /\ \A r \in Requests : req[r].pc = "done" /\ req[r].status = 200
    /\ \E r \in Requests : req[r].raced

\* C39 (concurrent upsert): after two upsert_entity calls with the same
\* (case-insensitive name, type) that interleaved between their find query
\* and their write have both returned, exactly one node has that key.
C39_ConcurrentUpsert ==
    BothUpserted
        => Cardinality(find_by_key(nodes, "Component", "Alpha")) = 1

\* ------------------------------------------------------------------------
\* Raw Cypher endpoint (routers/utils.py, routers/knowledge.py)
\* ------------------------------------------------------------------------

\* characters of a raw query
MaxQueryLen == 6

\* The characters of a query text.  "k" stands for the letters of one of the
\* DANGEROUS_KEYWORDS in either case, "a" for a letter that belongs to none,
\* "_" for an underscore or digit, "nl" for a line break; "/" and "*" are
\* themselves, and stand for every other non-word character as well.
QueryChars == {"k", "a", "_", "/", "*", "nl"}

\* \w of the regular expressions
WordChars == {"k", "a", "_"}

\* CypherRequest.query: str, min_length = 1
Queries == UNION {[1..n -> QueryChars] : n \in 1..MaxQueryLen}

\* The set DANGEROUS_KEYWORDS, as words over QueryChars
DANGEROUS_KEYWORDS == {<< "k" >>}

\* re.sub(r'//.*$', '', query, flags=re.MULTILINE) from position i on:
\* the characters from a // up to the line break are dropped
RECURSIVE strip_line_comments(_, _, _)
strip_line_comments(query, i, dropping) ==
    IF i > Len(query) THEN << >>
    ELSE IF query[i] = "nl" THEN << "nl" >> \o strip_line_comments(query, i + 1, FALSE)
    ELSE IF dropping THEN strip_line_comments(query, i + 1, TRUE)
    ELSE IF query[i] = "/" /\ i < Len(query) /\ query[i + 1] = "/"
    THEN strip_line_comments(query, i + 2, TRUE)
    ELSE << query[i] >> \o strip_line_comments(query, i + 1, FALSE)

\* re.sub(r'/\*.*?\*/', '', cleaned, flags=re.DOTALL) from position i on:
\* a /* is dropped with everything up to the first */ that follows it
RECURSIVE strip_block_comments(_, _)
strip_block_comments(cleaned, i) ==
    IF i > Len(cleaned) THEN << >>
    ELSE LET ends == {j \in (i + 2)..(Len(cleaned) - 1) :
                         cleaned[j] = "*" /\ cleaned[j + 1] = "/"}
         IN IF /\ cleaned[i] = "/" /\ i < Len(cleaned) /\ cleaned[i + 1] = "*"
               /\ ends # {}
            THEN strip_block_comments(cleaned,
                     (CHOOSE j \in ends : \A x \in ends : j <= x) + 2)
            ELSE << cleaned[i] >> \o strip_block_comments(cleaned, i + 1)

\* A tokeniser that finds a word only at the start of the text
words_at_start(cleaned) ==
    {SubSeq(cleaned, 1, j) : j \in
        {p \in 1..Len(cleaned) :
            /\ \A x \in 1..p : cleaned[x] \in {"k", "a"}
            /\ (p = Len(cleaned) \/ cleaned[p + 1] \notin WordChars)}}

\* set(re.findall(r'\b[A-Z]+\b', cleaned.upper())): the runs of letters that
\* have a word boundary on both sides
words(cleaned) ==
    {SubSeq(cleaned, i, j) : <<i, j>> \in
        {p \in (1..Len(cleaned)) \X (1..Len(cleaned)) :
            /\ p[1] <= p[2]
            /\ \A x \in p[1]..p[2] : cleaned[x] \in {"k", "a"}
            /\ (p[1] = 1 \/ cleaned[p[1] - 1] \notin WordChars)
            /\ (p[2] = Len(cleaned) \/ cleaned[p[2] + 1] \notin WordChars)}}

\* A gate that looks for the keywords in the text as sent, comments included
has_dangerous_keywords_raw(query) == words(query) \cap DANGEROUS_KEYWORDS # {}

\* has_dangerous_keywords
has_dangerous_keywords(query) ==
    words(strip_block_comments(strip_line_comments(query, 1, FALSE), 1))
        \cap DANGEROUS_KEYWORDS # {}

\* POST /query/cypher: the gate answers 400 before anything is executed
execute_cypher(query) ==
    /\ LET o == [IdleOp EXCEPT !.kind = "cypher", !.query = query,
                               !.before = [nodes |-> nodes, edges |-> edges]]
       IN StartOp(IF has_dangerous_keywords(query) THEN Respond(o, 400)
                  ELSE [o EXCEPT !.pc = "cypher_run"])
    /\ UNCHANGED <<ingestVars, tenantVars, scriptVars, graphVars, graphExists, snapshots, snapClock>>

\* db.execute_cypher(graph_name, query.query): the engine runs the text it
\* is given; a text that holds keyword letters may delete what it matches.
\* An exception of the engine is answered with 400.
CypherRun ==
    /\ op.pc = "cypher_run"
    /\ \E ok \in CypherOutcomes, mutates \in BOOLEAN :
         /\ mutates => (ok /\ \E i \in 1..Len(op.query) : op.query[i] = "k")
         /\ IF mutates
            THEN nodes' = {} /\ edges' = {}
            ELSE UNCHANGED <<nodes, edges>>
         /\ op' = Respond([op EXCEPT !.sent = TRUE], IF ok THEN 200 ELSE 400)
    /\ UNCHANGED <<ingestVars, tenantVars, scriptVars, nextNodeId, nextEdgeId, graphExists, snapshots,
                   snapClock, opsLeft>>

InitCypher ==
    /\ documents = [d \in Docs |-> NewDocument([text |-> FALSE, nchunks |-> 0])]
    /\ chunks = {}
    /\ points = {}
    /\ req = [r \in Requests |-> IdleReq]
    /\ nextRun = 0
    /\ failedDeletes = {}
    /\ extractionClient = FALSE
    /\ nodes = ComponentGraph.nodes
    /\ edges = ComponentGraph.edges
    /\ nextNodeId = 4
    /\ nextEdgeId = 2
    /\ graphExists = TRUE
    /\ snapshots = {}
    /\ snapClock = 1
    /\ op = IdleOp
    /\ opsLeft = 1
    /\ field_nodes = << >>
    /\ agent_presence = << >>
    /\ state_file = << >>
    /\ projects = {}
    /\ graphs = {}
    /\ collections = {}

\* The queries a request may carry, when a request can be taken
Incoming(inputs) == IF op.pc \in {"idle", "done"} /\ opsLeft > 0 THEN inputs ELSE {}

NextCypher ==
    \/ \E query \in Incoming(Queries) : execute_cypher(query)
    \/ CypherRun

SpecCypher == InitCypher /\ [][NextCypher]_vars

\* ------------------------------------------------------------------------
\* Claims on the raw-query gate
\* ------------------------------------------------------------------------

\* The query text with its //-line comments, then its block comments, removed
Stripped(query) == strip_block_comments(strip_line_comments(query, 1, FALSE), 1)

\* The text holds a keyword as a whole word: no word character on either side
HasKeywordWord(text) ==
    \E i \in 1..Len(text) :
       /\ text[i] = "k"
       /\ (i = 1 \/ text[i - 1] \notin WordChars)
       /\ (i = Len(text) \/ text[i + 1] \notin WordChars)

\* The request was answered 400 by the gate: nothing was executed
RejectedByGate == op.pc = "done" /\ op.status = 400 /\ ~op.sent

IdentifiersOnly(query) ==
    \A i \in 1..Len(query) :
       query[i] = "k"
       => \/ (i > 1 /\ query[i - 1] \in WordChars)
          \/ (i < Len(query) /\ query[i + 1] \in WordChars)

QuotedQueryChars == {"k", "a", "q", "/", "*", "nl"}

QuotedQueries == UNION {[1..n -> QuotedQueryChars] : n \in 1..MaxQueryLen}

NextQuoted ==
    \/ \E query \in Incoming(QuotedQueries) : execute_cypher(query)
    \/ CypherRun

SpecQuoted == InitCypher /\ [][NextQuoted]_vars

\* The text of a query as a Cypher lexer reads it from position i on.  In
\* code, a quote opens a string literal, // a comment up to the line break
\* and /* a comment up to the next */; inside a string literal nothing opens
\* a comment, and inside a comment nothing opens a string.  A comment reads
\* as white space, the content of a string literal is no keyword and is left
\* out, and a text that ends inside a string literal or a block comment is
\* no query ("err").
RECURSIVE engine_text(_, _, _)
engine_text(query, i, mode) ==
    IF i > Len(query)
    THEN IF mode \in {"string", "block"} THEN << "err" >> ELSE << >>
    ELSE IF mode = "string"
    THEN IF query[i] = "q" THEN << "q" >> \o engine_text(query, i + 1, "code")
         ELSE engine_text(query, i + 1, "string")
    ELSE IF mode = "line"
    THEN IF query[i] = "nl" THEN << "nl" >> \o engine_text(query, i + 1, "code")
         ELSE engine_text(query, i + 1, "line")
    ELSE IF mode = "block"
    THEN IF query[i] = "*" /\ i < Len(query) /\ query[i + 1] = "/"
         THEN << "nl" >> \o engine_text(query, i + 2, "code")
         ELSE engine_text(query, i + 1, "block")
    ELSE IF query[i] = "q" THEN << "q" >> \o engine_text(query, i + 1, "string")
    ELSE IF query[i] = "/" /\ i < Len(query) /\ query[i + 1] = "/"
    THEN engine_text(query, i + 2, "line")
    ELSE IF query[i] = "/" /\ i < Len(query) /\ query[i + 1] = "*"
    THEN engine_text(query, i + 2, "block")
    ELSE << query[i] >> \o engine_text(query, i + 1, "code")

\* The engine finds a mutation keyword in the query it is given
EngineReadsKeyword(query) ==
    LET text == engine_text(query, 1, "code")
    IN /\ \A i \in 1..Len(text) : text[i] # "err"
       /\ HasKeywordWord(text)

\* The query holds // or /* inside a string literal that is closed
CommentMarkInString(query) ==
    \E i, j \in 1..Len(query) :
       /\ i + 2 < j
       /\ query[i] = "q" /\ query[j] = "q"
       /\ \A x \in 1..(i - 1) : query[x] \notin {"q", "/", "*"}
       /\ \A x \in (i + 1)..(j - 1) : query[x] # "q"
       /\ \E x \in (i + 1)..(j - 2) :
             query[x] = "/" /\ query[x + 1] \in {"/", "*"}

\* C37 (no mutation through the raw-query endpoint): a query that the
\* endpoint has handed to the engine holds no mutation keyword as the engine
\* reads it, string literals that hold // or /* included.
C37_NoMutationKeywordForwarded ==
    (op.kind = "cypher" /\ op.sent) => ~EngineReadsKeyword(op.query)

\* The case of C37 for string literals: a forwarded query that holds // or
\* /* inside a closed string literal holds no mutation keyword as the engine
\* reads it
QuotedCommentMarksForwarded ==
    (op.kind = "cypher" /\ op.sent /\ CommentMarkInString(op.query))
        => ~EngineReadsKeyword(op.query)

\* ------------------------------------------------------------------------
\* Projects (routers/projects.py) and fan-out search (routers/search.py,
\* services/search.py)
\* ------------------------------------------------------------------------

MaxProjects == 2
MaxLimit == 2
MaxProjectRequests == 2

\* Project slugs: ProjectCreate.slug matches ^[a-z0-9-]+$
SlugNames == << "p1", "p2", "p3" >>
Slugs == {SlugNames[i] : i \in 1..MaxProjects}

\* SELECT slug, graph_name FROM public.projects: the rows in any order
fetch_all_projects ==
    {rows \in [1..Cardinality(projects) -> projects] :
        \A i, j \in 1..Cardinality(projects) : rows[i] = rows[j] => i = j}

SearchModes == {"hybrid", "vector", "graph"}

\* What VectorService.search may return for a project, mapped to
\* SearchResult by _vector_search: at most one chunk, its cosine score a
\* number of halves.  Chunk ids are point ids prefixed "chunk_".
VectorHits(slug) ==
    {<< >>} \cup
    {<< [id |-> << "chunk", slug >>, score |-> s, source |-> "vector",
         project |-> NULL] >> : s \in {1, 2}}

\* An entity matched by _graph_search: score 1.0 (two halves), its id the
\* AGE vertex id, which graphs of different projects can share
GraphNode(k) ==
    [id |-> << "node", k >>, score |-> 2, source |-> "graph", project |-> NULL]

GraphHits == {<< >>, << GraphNode("1") >>, << GraphNode("2"), GraphNode("1") >>}

\* sorted(results, key=lambda x: x.score, reverse=True): stable
sort_by_score(results) ==
    SelectSeq(results, LAMBDA r : r.score = 2)
        \o SelectSeq(results, LAMBDA r : r.score = 1)

\* The results whose id was not seen earlier in the list
RECURSIVE first_seen(_, _)
first_seen(results, seen_ids) ==
    IF results = << >> THEN << >>
    ELSE IF Head(results).id \in seen_ids
         THEN first_seen(Tail(results), seen_ids)
         ELSE << Head(results) >>
                  \o first_seen(Tail(results), seen_ids \cup {Head(results).id})

\* results[:limit]
Take(results, limit) ==
    SubSeq(results, 1, IF Len(results) < limit THEN Len(results) ELSE limit)

\* SearchService.search, lines 81-90: deduplicate, sort by score, limit
search(vector_results, graph_results, limit) ==
    Take(first_seen(sort_by_score(vector_results \o graph_results), {}), limit)

\* search_project without its exception handler: the failure's partial
\* results are returned
search_project_unguarded(slug, results, raised) ==
    [i \in 1..Len(results) |-> [results[i] EXCEPT !.project = slug]]

\* search_project: the results tagged with the project, [] when the search
\* raised
search_project(slug, results, raised) ==
    IF raised THEN << >>
    ELSE [i \in 1..Len(results) |-> [results[i] EXCEPT !.project = slug]]

\* A per-project task before it ran.  query_vector is history: the vector
\* the task searched with (0 for none).
PendingTask ==
    [pc |-> "pending", vector_results |-> << >>, results |-> << >>,
     query_vector |-> 0, raised |-> FALSE]

\* The fan-out request's locals.  embed_calls and completed are history:
\* the number of embed_text calls made for the request and the tasks in
\* the order they completed.
FanoutOp(mode, limit) ==
    [kind |-> "fanout", pc |-> "load", status |-> 0, mode |-> mode,
     limit |-> limit, rows |-> << >>, query_embedding |-> 0, embed_calls |-> 0,
     tasks |-> << >>, completed |-> << >>,
     response |-> [results |-> << >>, total |-> 0, projects_searched |-> 0,
                   project_stats |-> << >>]]

\* POST /api/v1/search, lines 61-73: load the projects
fanout_search(mode, limit) ==
    /\ \E ok \in BOOLEAN, rows \in fetch_all_projects :
         StartOp(IF ~ok THEN Respond(FanoutOp(mode, limit), 500)
                 ELSE IF rows = << >> THEN Respond(FanoutOp(mode, limit), 200)
                 ELSE [FanoutOp(mode, limit) EXCEPT
                          !.rows = rows,
                          !.tasks = [i \in 1..Len(rows) |-> PendingTask],
                          !.pc = IF mode \in {"hybrid", "vector"}
                                 THEN "embed" ELSE "search"])
    /\ UNCHANGED <<ingestVars, tenantVars, scriptVars, graphVars, graphExists, snapshots, snapClock>>

\* lines 76-78: query_embedding = await embedding_service.embed_text(query)
FanoutEmbed ==
    /\ op.kind = "fanout" /\ op.pc = "embed"
    /\ \E ok \in BOOLEAN :
         op' = IF ok
               THEN [op EXCEPT !.embed_calls = @ + 1,
                               !.query_embedding = op.embed_calls + 1,
                               !.pc = "search"]
               ELSE Respond([op EXCEPT !.embed_calls = @ + 1], 500)
    /\ UNCHANGED <<ingestVars, tenantVars, scriptVars, graphVars, graphExists, snapshots, snapClock, opsLeft>>

\* search_project passes None for the embedding
embedding_argument_none(o) == 0

\* line 87: embedding=query_embedding
embedding_argument(o) == o.query_embedding

\* The end of a per-project task: search's result, through search_project
Completed(o, i, vector_results, graph_results, raised) ==
    [o EXCEPT !.tasks[i].pc = "done",
              !.tasks[i].raised = raised,
              !.tasks[i].results =
                  search_project(o.rows[i].slug,
                                 search(vector_results, graph_results, o.limit),
                                 raised),
              !.completed = Append(@, i)]

\* SearchService._vector_search for the project of task i; a failure is
\* logged and gives [].  Without a pre-computed embedding the query is
\* embedded here.
VectorSearch(i) ==
    /\ op.kind = "fanout" /\ op.pc = "search"
    /\ i \in 1..Len(op.rows)
    /\ op.tasks[i].pc = "pending"
    /\ op.mode \in {"hybrid", "vector"}
    /\ \E ok \in BOOLEAN, hits \in VectorHits(op.rows[i].slug), raises \in BOOLEAN :
         LET reuse == embedding_argument(op) # 0
             calls == IF reuse THEN op.embed_calls ELSE op.embed_calls + 1
             query_vector == IF reuse THEN embedding_argument(op) ELSE calls
             vector_results == IF ok THEN hits ELSE << >>
             searched == [op EXCEPT !.embed_calls = calls,
                                    !.tasks[i].query_vector = query_vector,
                                    !.tasks[i].vector_results = vector_results,
                                    !.tasks[i].pc = "vector_done"]
         IN  op' = IF op.mode = "vector"
                   THEN Completed(searched, i, vector_results, << >>, raises)
                   ELSE searched
    /\ UNCHANGED <<ingestVars, tenantVars, scriptVars, graphVars, graphExists, snapshots, snapClock, opsLeft>>

\* SearchService._graph_search for the project of task i (a failure is
\* logged and gives []), then lines 81-101 of search
GraphSearch(i) ==
    /\ op.kind = "fanout" /\ op.pc = "search"
    /\ i \in 1..Len(op.rows)
    /\ op.tasks[i].pc = IF op.mode = "graph" THEN "pending" ELSE "vector_done"
    /\ op.mode \in {"hybrid", "graph"}
    /\ \E ok \in BOOLEAN, hits \in GraphHits, raises \in BOOLEAN :
         op' = Completed(op, i, op.tasks[i].vector_results,
                         IF ok THEN hits ELSE << >>, raises)
    /\ UNCHANGED <<ingestVars, tenantVars, scriptVars, graphVars, graphExists, snapshots, snapClock, opsLeft>>

\* The per-project results in the order the tasks completed
gather_as_completed(o) ==
    [n \in 1..Len(o.rows) |->
        [slug |-> o.rows[o.completed[n]].slug,
         results |-> o.tasks[o.completed[n]].results]]

\* asyncio.gather(*tasks): the per-project results in the order of the tasks
gather(o) ==
    [i \in 1..Len(o.rows) |->
        [slug |-> o.rows[i].slug, results |-> o.tasks[i].results]]

\* lines 101-113: merge and deduplicate by id, counting per project
RECURSIVE merge(_, _, _, _)
merge(project_results, seen_ids, merged, project_stats) ==
    IF project_results = << >>
    THEN [merged |-> merged, project_stats |-> project_stats]
    ELSE LET slug == Head(project_results).slug
             new == first_seen(Head(project_results).results, seen_ids)
         IN  merge(Tail(project_results),
                   seen_ids \cup {new[x].id : x \in 1..Len(new)},
                   merged \o new,
                   Append(project_stats,
                          [project |-> slug, result_count |-> Len(new)]))

\* lines 115-124: sort by score descending, apply the limit, respond
FanoutSearchResponse(o, project_results) ==
    LET m == merge(project_results, {}, << >>, << >>)
        results == Take(sort_by_score(m.merged), o.limit)
    IN  [results |-> results, total |-> Len(results),
         projects_searched |-> Len(o.rows), project_stats |-> m.project_stats]

\* lines 99-124, once every task has completed
FanoutMerge ==
    /\ op.kind = "fanout" /\ op.pc = "search"
    /\ \A i \in 1..Len(op.rows) : op.tasks[i].pc = "done"
    /\ op' = Respond([op EXCEPT !.response = FanoutSearchResponse(op, gather(op))],
                     200)
    /\ UNCHANGED <<ingestVars, tenantVars, scriptVars, graphVars, graphExists, snapshots, snapClock, opsLeft>>

InitFanout ==
    /\ documents = [d \in Docs |-> NewDocument([text |-> FALSE, nchunks |-> 0])]
    /\ chunks = {}
    /\ points = {}
    /\ req = [r \in Requests |-> IdleReq]
    /\ nextRun = 0
    /\ failedDeletes = {}
    /\ extractionClient = FALSE
    /\ nodes = {}
    /\ edges = {}
    /\ nextNodeId = 1
    /\ nextEdgeId = 1
    /\ graphExists = TRUE
    /\ snapshots = {}
    /\ snapClock = 1
    /\ op = IdleOp
    /\ opsLeft = 1
    /\ field_nodes = << >>
    /\ agent_presence = << >>
    /\ state_file = << >>
    /\ \E created \in SUBSET Slugs :
         /\ projects = {ProjectRow(slug, 0) : slug \in created}
         /\ graphs = {graph_name(slug) : slug \in created}
         /\ collections = {collection_name(slug) : slug \in created}

NextFanout ==
    \/ \E mode \in Incoming(SearchModes), limit \in 1..MaxLimit :
         fanout_search(mode, limit)
    \/ FanoutEmbed
    \/ \E i \in 1..MaxProjects : VectorSearch(i)
    \/ \E i \in 1..MaxProjects : GraphSearch(i)
    \/ FanoutMerge

SpecFanout == InitFanout /\ [][NextFanout]_vars

\* ------------------------------------------------------------------------
\* Claims on fan-out search
\* ------------------------------------------------------------------------

\* A fan-out request over at least one project
FanoutOver(modes) ==
    op.kind = "fanout" /\ op.mode \in modes /\ Len(op.rows) >= 1

\* The fan-out request answered 200 after searching its projects
FanoutAnswered == FanoutOver(SearchModes) /\ op.pc = "done" /\ op.status = 200

\* C13 (embedding reuse in fan-out): once a vector or hybrid fan-out over
\* N >= 1 projects is past its embedding step, embed_text has been called
\* exactly once for the request, whichever per-project searches failed, and
\* every per-project vector search that ran used the vector that call gave.
C13_EmbeddingReuse ==
    (FanoutOver({"hybrid", "vector"}) /\ op.pc \in {"search", "done"})
    => /\ op.embed_calls = 1
       /\ \A i \in 1..Len(op.rows) :
             op.tasks[i].pc # "pending"
             => op.tasks[i].query_vector = op.query_embedding /\ op.query_embedding # 0

\* A hybrid fan-out over two projects, one of whose searches raised, was
\* answered after one embedding call
C13_Witness ==
    /\ FanoutAnswered /\ op.mode = "hybrid" /\ Len(op.rows) = 2
    /\ op.embed_calls = 1
    /\ op.tasks[1].raised /\ ~op.tasks[2].raised
    /\ op.tasks[2].query_vector = op.query_embedding

\* The ids of a result list
Ids(results) == {results[x].id : x \in 1..Len(results)}

\* C14 (fan-out failure isolation): a fan-out whose per-project searches
\* have all completed is answered 200; a project whose search raised
\* contributes no result, is listed in project_stats under its slug with
\* result_count 0 and is counted in projects_searched; and when the limit
\* did not cut the list, every id found by a project whose search did not
\* raise is among the results.
C14_FailureIsolation ==
    (FanoutOver(SearchModes) /\ op.pc = "done"
        /\ \A i \in 1..Len(op.rows) : op.tasks[i].pc = "done")
    => /\ op.status = 200
       /\ op.response.projects_searched = Len(op.rows)
       /\ Len(op.response.project_stats) = Len(op.rows)
       /\ \A i \in 1..Len(op.rows) :
             op.tasks[i].raised
             => /\ op.response.project_stats[i] =
                      [project |-> op.rows[i].slug, result_count |-> 0]
                /\ \A x \in 1..Len(op.response.results) :
                      op.response.results[x].project # op.rows[i].slug
       /\ op.response.total < op.limit
          => \A i \in 1..Len(op.rows) :
                ~op.tasks[i].raised
                => Ids(op.tasks[i].results) \subseteq Ids(op.response.results)

\* The search of the first project raised after finding results, the second
\* project's results were returned
C14_Witness ==
    /\ FanoutAnswered /\ Len(op.rows) = 2
    /\ op.tasks[1].raised /\ op.tasks[1].vector_results # << >>
    /\ ~op.tasks[2].raised /\ op.tasks[2].results # << >>
    /\ op.response.total = Len(op.tasks[2].results)
    /\ op.response.project_stats[1].result_count = 0

\* The per-project result lists of the request, in the order of its projects
ProjectLists ==
    [i \in 1..Len(op.rows) |->
        [slug |-> op.rows[i].slug, results |-> op.tasks[i].results]]

\* C15 (fan-out merge determinism): the response is the merge of the
\* per-project result lists taken in the order of the projects, whatever
\* the order in which the tasks completed; its results have pairwise
\* distinct ids, each tagged with the first project that returned the id,
\* are sorted by score descending and number at most limit.
C15_MergeDeterminism ==
    FanoutAnswered
    => LET results == op.response.results
       IN  /\ op.response = FanoutSearchResponse(op, ProjectLists)
           /\ \A x, y \in 1..Len(results) : results[x].id = results[y].id => x = y
           /\ \A x \in 1..Len(results) :
                 \E i \in 1..Len(op.rows) :
                    /\ results[x].project = op.rows[i].slug
                    /\ results[x].id \in Ids(op.tasks[i].results)
                    /\ \A j \in 1..(i - 1) : results[x].id \notin Ids(op.tasks[j].results)
           /\ \A x, y \in 1..Len(results) : x < y => results[x].score >= results[y].score
           /\ Len(results) <= op.limit
           /\ op.response.total = Len(results)

\* Two projects returned the same entity id, the second task completed
\* first, and the result is the first project's
C15_Witness ==
    /\ FanoutAnswered /\ Len(op.rows) = 2
    /\ op.completed = << 2, 1 >>
    /\ Ids(op.tasks[1].results) \cap Ids(op.tasks[2].results) # {}
    /\ \E x \in 1..Len(op.response.results) :
          /\ op.response.results[x].id \in Ids(op.tasks[2].results)
          /\ op.response.results[x].project = op.rows[1].slug

\* ------------------------------------------------------------------------
\* Project endpoints (routers/projects.py)
\* ------------------------------------------------------------------------

\* The locals of a create_project or delete_project request.  inserted,
\* graph_removed and collection_removed are history: the id of the row the
\* request inserted, whether its drop_graph and delete_collection calls
\* removed the graph and the collection, and whether no other project
\* request was being served when this one was taken.
IdleProjectReq ==
    [kind |-> "none", pc |-> "idle", slug |-> NULL, status |-> 0, run |-> 0,
     inserted |-> NULL, graph_removed |-> FALSE, collection_removed |-> FALSE,
     alone |-> FALSE]

\* The request ends with an HTTP status
Answer(r, code) == SetReq(r, [req[r] EXCEPT !.pc = "done", !.status = code])

\* What stays as it is in every step of a project request
projectFrame ==
    <<documents, chunks, points, failedDeletes, extractionClient, graphVars, serviceVars,
      scriptVars>>

\* A project request is taken by a free worker
StartProjectReq(r) ==
    /\ req[r].pc \in {"idle", "done"}
    /\ nextRun < MaxProjectRequests
    /\ nextRun' = nextRun + 1

\* lines 63-67: existing = SELECT id FROM public.projects WHERE slug = %s
slug_exists(slug) == RowsOf(slug) # {}

\* POST /api/v1/projects, lines 58-71: the slug is looked up, 409 if found
create_project(r, slug) ==
    /\ StartProjectReq(r)
    /\ \E ok \in BOOLEAN :
         SetReq(r, [IdleProjectReq EXCEPT
                       !.kind = "create", !.slug = slug, !.run = nextRun + 1,
                       !.pc = IF ~ok \/ slug_exists(slug) THEN "done" ELSE "insert",
                       !.status = IF ~ok THEN 500
                                  ELSE IF slug_exists(slug) THEN 409 ELSE 0])
    /\ UNCHANGED <<projectFrame, tenantVars>>

\* lines 74-81: INSERT INTO public.projects ... RETURNING *.  The table's
\* definition is not part of the sources: with a row of the slug present
\* the insert either raises (a unique index) or adds a second row.
CreateInsert(r) ==
    /\ req[r].kind = "create" /\ req[r].pc = "insert"
    /\ \E ok \in BOOLEAN, unique \in BOOLEAN :
         IF ok /\ ~(unique /\ RowsOf(req[r].slug) # {})
         THEN /\ projects' = projects \cup {ProjectRow(req[r].slug, req[r].run)}
              /\ SetReq(r, [req[r] EXCEPT !.pc = "create_graph",
                                          !.inserted = << req[r].slug, req[r].run >>])
         ELSE /\ Answer(r, 500)
              /\ UNCHANGED projects
    /\ UNCHANGED <<projectFrame, nextRun, graphs, collections>>

\* lines 84-85: GraphService.create_graph; "already exists" is a success,
\* any other failure is raised
CreateGraph(r) ==
    /\ req[r].kind = "create" /\ req[r].pc = "create_graph"
    /\ \E ok \in BOOLEAN :
         IF ok
         THEN /\ graphs' = graphs \cup {graph_name(req[r].slug)}
              /\ graphExists' = (graphExists \/ req[r].slug = "p1")
              /\ SetReq(r, [req[r] EXCEPT !.pc = "create_collection"])
         ELSE /\ Answer(r, 500)
              /\ UNCHANGED <<graphs, graphExists>>
    /\ UNCHANGED <<documents, chunks, points, failedDeletes, extractionClient, graphVars,
                   snapshots, snapClock, op, opsLeft, nextRun, projects, collections,
                   scriptVars>>

\* lines 88-99: VectorService.create_collection, then 201
CreateCollection(r) ==
    /\ req[r].kind = "create" /\ req[r].pc = "create_collection"
    /\ \E ok \in BOOLEAN :
         IF ok
         THEN /\ collections' = collections \cup {collection_name(req[r].slug)}
              /\ Answer(r, 201)
         ELSE /\ Answer(r, 500)
              /\ UNCHANGED collections
    /\ UNCHANGED <<projectFrame, nextRun, projects, graphs>>

\* DELETE /api/v1/projects/{slug}, lines 144-153: 404 without a row
delete_project(r, slug) ==
    /\ StartProjectReq(r)
    /\ \E ok \in BOOLEAN :
         SetReq(r, [IdleProjectReq EXCEPT
                       !.kind = "delete", !.slug = slug, !.run = nextRun + 1,
                       !.alone = \A x \in Requests \ {r} : req[x].pc \in {"idle", "done"},
                       !.pc = IF ~ok \/ RowsOf(slug) = {} THEN "done" ELSE "drop_graph",
                       !.status = IF ~ok THEN 500
                                  ELSE IF RowsOf(slug) = {} THEN 404 ELSE 0])
    /\ UNCHANGED <<projectFrame, tenantVars>>

\* A drop_graph that leaves the graph in place
drop_graph_keeps(name) == graphs

\* GraphService.drop_graph: SELECT ag_catalog.drop_graph(name, true)
drop_graph(name) == graphs \ {name}

\* VectorService.delete_collection
delete_collection(slug) == collections \ {collection_name(slug)}

\* lines 156-157: drop_graph logs a failure and returns False; the return
\* value is not looked at
DeleteDropGraph(r) ==
    /\ req[r].kind = "delete" /\ req[r].pc = "drop_graph"
    /\ \E ok \in BOOLEAN :
         /\ graphs' = IF ok THEN drop_graph(graph_name(req[r].slug)) ELSE graphs
         /\ IF ok /\ req[r].slug = "p1"
            THEN /\ nodes' = {}
                 /\ edges' = {}
                 /\ nextNodeId' = 1
                 /\ nextEdgeId' = 1
                 /\ graphExists' = FALSE
            ELSE UNCHANGED <<graphVars, graphExists>>
         /\ SetReq(r, [req[r] EXCEPT
                          !.pc = "delete_collection",
                          !.graph_removed = ok /\ graph_name(req[r].slug) \in graphs])
    /\ UNCHANGED <<documents, chunks, points, failedDeletes, extractionClient,
                   snapshots, snapClock, op, opsLeft, nextRun, projects, collections,
                   scriptVars>>

\* line 160: delete_collection logs a failure and returns False; the return
\* value is not looked at
DeleteCollection(r) ==
    /\ req[r].kind = "delete" /\ req[r].pc = "delete_collection"
    /\ \E ok \in BOOLEAN :
         /\ collections' = IF ok THEN delete_collection(req[r].slug) ELSE collections
         /\ SetReq(r, [req[r] EXCEPT
                          !.pc = "delete_row",
                          !.collection_removed =
                              ok /\ collection_name(req[r].slug) \in collections])
    /\ UNCHANGED <<projectFrame, nextRun, projects, graphs>>

\* lines 163-168: DELETE FROM public.projects WHERE slug = %s, then 204
DeleteRow(r) ==
    /\ req[r].kind = "delete" /\ req[r].pc = "delete_row"
    /\ \E ok \in BOOLEAN :
         IF ok
         THEN /\ projects' = projects \ RowsOf(req[r].slug)
              /\ Answer(r, 204)
         ELSE /\ Answer(r, 500)
              /\ UNCHANGED projects
    /\ UNCHANGED <<projectFrame, nextRun, graphs, collections>>

InitProjects ==
    /\ documents = [d \in Docs |-> NewDocument([text |-> FALSE, nchunks |-> 0])]
    /\ chunks = {}
    /\ points = {}
    /\ req = [r \in Requests |-> IdleProjectReq]
    /\ nextRun = 0
    /\ failedDeletes = {}
    /\ extractionClient = FALSE
    /\ nodes = {}
    /\ edges = {}
    /\ nextNodeId = 1
    /\ nextEdgeId = 1
    /\ snapshots = {}
    /\ snapClock = 1
    /\ op = IdleOp
    /\ opsLeft = 0
    /\ field_nodes = << >>
    /\ agent_presence = << >>
    /\ state_file = << >>
    /\ \E created \in SUBSET Slugs :
         /\ projects = {ProjectRow(slug, 0) : slug \in created}
         /\ graphs = {graph_name(slug) : slug \in created}
         /\ graphExists = ("p1" \in created)
         /\ collections = {collection_name(slug) : slug \in created}

NextProjects ==
    \/ \E r \in Requests, slug \in Slugs : create_project(r, slug)
    \/ \E r \in Requests : CreateInsert(r)
    \/ \E r \in Requests : CreateGraph(r)
    \/ \E r \in Requests : CreateCollection(r)
    \/ \E r \in Requests, slug \in Slugs : delete_project(r, slug)
    \/ \E r \in Requests : DeleteDropGraph(r)
    \/ \E r \in Requests : DeleteCollection(r)
    \/ \E r \in Requests : DeleteRow(r)

SpecProjects == InitProjects /\ [][NextProjects]_vars

\* ------------------------------------------------------------------------
\* Claims on the project endpoints
\* ------------------------------------------------------------------------

\* Request r is a delete_project that returns 204 in this step
DeleteReturns(r) ==
    /\ req[r].kind = "delete" /\ req[r].pc = "delete_row"
    /\ req'[r].pc = "done" /\ req'[r].status = 204

\* After the step no row, graph or collection of the slug is left
GoneAfter(slug) ==
    /\ {row \in projects' : row.slug = slug} = {}
    /\ graph_name(slug) \notin graphs'
    /\ collection_name(slug) \notin collections'

\* C16 (project delete), as stated: when delete_project for P returns 204,
\* P's row, P's graph and P's collection are gone.
C16_DeleteRemovesAll ==
    [][\A r \in Requests : DeleteReturns(r) => GoneAfter(req[r].slug)]_vars

\* C16 (project delete), as the code has it: when delete_project for P
\* returns 204, P's row is gone; P's graph and collection are gone as well
\* when its drop_graph and delete_collection calls each removed what they
\* were called for and no other project request was served meanwhile.
C16_DeleteBestEffort ==
    [][\A r \in Requests :
          DeleteReturns(r)
          => /\ {row \in projects' : row.slug = req[r].slug} = {}
             /\ (req[r].graph_removed /\ req[r].collection_removed
                    /\ req[r].alone /\ nextRun = req[r].run)
                => GoneAfter(req[r].slug)]_vars

\* A delete_project whose two removal calls succeeded has returned 204 and
\* nothing of the project is left
C16_Witness ==
    \E r \in Requests :
       /\ req[r].kind = "delete" /\ req[r].pc = "done" /\ req[r].status = 204
       /\ req[r].graph_removed /\ req[r].collection_removed
       /\ req[r].alone /\ nextRun = req[r].run
       /\ RowsOf(req[r].slug) = {}
       /\ graph_name(req[r].slug) \notin graphs
       /\ collection_name(req[r].slug) \notin collections

\* Only create_project requests were made, each by its own worker, and all
\* have finished
OnlyFinishedCreates ==
    /\ \A r \in Requests : req[r].pc = "idle" \/ (req[r].pc = "done" /\ req[r].kind = "create")
    /\ \E r \in Requests : req[r].pc = "done"
    /\ nextRun = Cardinality({r \in Requests : req[r].pc = "done"})

\* C17 (project created as a unit): once the create_project requests have
\* finished, with 201 or with an error, a slug has a project row exactly
\* when both its graph and its collection exist.
C17_CreatedAsUnit ==
    OnlyFinishedCreates
    => \A slug \in Slugs :
          RowsOf(slug) # {}
          <=> (graph_name(slug) \in graphs /\ collection_name(slug) \in collections)

\* C18 (slug uniqueness): no two project rows share a slug, and a
\* create_project that comes to its insert when a row of the slug exists
\* is answered 409 and inserts nothing.
C18_SlugUniqueness ==
    [][/\ \A a, b \in projects' : a.slug = b.slug => a = b
       /\ \A r \in Requests :
             (req[r].kind = "create" /\ req[r].pc = "insert"
                 /\ req'[r].pc # "insert" /\ RowsOf(req[r].slug) # {})
             => (req'[r].status = 409 /\ projects' = projects)]_vars

\* ------------------------------------------------------------------------
\* Cross-chunk extraction (services/extraction.py, extract_from_document)
\* ------------------------------------------------------------------------

\* What extract_from_chunk may return for one chunk: one or two entities,
\* their temp_ids e1 and e2 in order, and no relationship, one, the same one
\* twice or the two USES between e1 and e2; e9 is a temp_id no entity
\* carries.  Properties are left out.
ChunkEntityNames ==
    {<< "Alpha" >>, << "Alpha", "Beta" >>, << "alpha", "Beta" >>, << "Alpha", "alpha" >>}

ChunkEntities(names) ==
    [n \in 1..Len(names) |->
        [temp_id |-> IF n = 1 THEN "e1" ELSE "e2", name |-> names[n],
         type |-> "Component"]]

ChunkRelationship ==
    {[source |-> "e1", target |-> "e2", type |-> "USES"],
     [source |-> "e2", target |-> "e1", type |-> "USES"],
     [source |-> "e9", target |-> "e9", type |-> "USES"],
     [source |-> "e1", target |-> "e2", type |-> "DEPENDS_ON"]}

ChunkRelationships ==
    {<< >>} \cup {<< a >> : a \in ChunkRelationship}
            \cup {<< a, a >> : a \in ChunkRelationship}
            \cup {<< [source |-> "e1", target |-> "e2", type |-> "USES"],
                      [source |-> "e2", target |-> "e1", type |-> "USES"] >>}

\* f"c{i}_{temp_id}", i the chunk's index from 0
ChunkTags == << "c0", "c1", "c2" >>
prefixed(i, temp_id) == << ChunkTags[i + 1], temp_id >>

\* f"d{n}"
DedupTags == << "1", "2" >>
new_id(n) == << "d", DedupTags[n] >>

\* lines 481-489: the chunk's entities and relationships with prefixed ids
prefix_entities(i, entities) ==
    [n \in 1..Len(entities) |->
        [entities[n] EXCEPT !.temp_id = prefixed(i, entities[n].temp_id)]]

prefix_relationships(i, relationships) ==
    [n \in 1..Len(relationships) |->
        [relationships[n] EXCEPT !.source = prefixed(i, relationships[n].source),
                                 !.target = prefixed(i, relationships[n].target)]]

\* key = (entity.name.lower().strip(), entity.type)
group_key(entity) == << toLower(entity.name), entity.type >>

\* The keys of entity_groups in insertion order
RECURSIVE group_keys(_, _)
group_keys(entities, seen) ==
    IF entities = << >> THEN << >>
    ELSE IF group_key(Head(entities)) \in seen
         THEN group_keys(Tail(entities), seen)
         ELSE << group_key(Head(entities)) >>
                  \o group_keys(Tail(entities), seen \cup {group_key(Head(entities))})

\* sum(1 for c in e.name if c.isupper())
uppercase_count(name) == IF name \in {"Alpha", "Beta"} THEN 1 ELSE 0

\* _deduplicate_entities: one entity per (lowercased name, type), named as
\* the first member with the most capitals, and the mapping of every old
\* temp_id to its group's new id
deduplicate_entities_of(entities) ==
    LET keys == group_keys(entities, {})
        group(n) == SelectSeq(entities, LAMBDA e : group_key(e) = keys[n])
        most(n) == CHOOSE c \in {uppercase_count(group(n)[x].name) : x \in 1..Len(group(n))} :
                      \A x \in 1..Len(group(n)) : uppercase_count(group(n)[x].name) <= c
        base(n) == Head(SelectSeq(group(n), LAMBDA e : uppercase_count(e.name) = most(n)))
    IN  [deduped |-> [n \in 1..Len(keys) |->
                         [temp_id |-> new_id(n), name |-> base(n).name,
                          type |-> keys[n][2]]],
         id_mapping |-> [t \in {entities[x].temp_id : x \in 1..Len(entities)} |->
                            new_id(CHOOSE n \in 1..Len(keys) :
                                      \E x \in 1..Len(entities) :
                                         /\ entities[x].temp_id = t
                                         /\ group_key(entities[x]) = keys[n])]]

\* id_mapping.get(ref, ref)
mapped(id_mapping, ref) == IF ref \in DOMAIN id_mapping THEN id_mapping[ref] ELSE ref

\* A reference update that keeps the relationships from an entity to itself
update_relationship_references_keeping_loops(relationships, id_mapping) ==
    [n \in 1..Len(relationships) |->
        [relationships[n] EXCEPT !.source = mapped(id_mapping, relationships[n].source),
                                 !.target = mapped(id_mapping, relationships[n].target)]]

\* _update_relationship_references: the new ids are put in, a relationship
\* whose two ends are then equal is skipped
update_relationship_references(relationships, id_mapping) ==
    SelectSeq([n \in 1..Len(relationships) |->
                  [relationships[n] EXCEPT
                      !.source = mapped(id_mapping, relationships[n].source),
                      !.target = mapped(id_mapping, relationships[n].target)]],
              LAMBDA rel : rel.source # rel.target)

\* _deduplicate_relationships: the first relationship of every
\* (source, target, type)
RECURSIVE deduplicate_relationships(_, _)
deduplicate_relationships(relationships, seen) ==
    IF relationships = << >> THEN << >>
    ELSE LET rel == Head(relationships)
             key == << rel.source, rel.target, rel.type >>
         IN  IF key \in seen
             THEN deduplicate_relationships(Tail(relationships), seen)
             ELSE << rel >> \o deduplicate_relationships(Tail(relationships),
                                                        seen \cup {key})

\* The locals of extract_from_document over nchunks chunks
ExtractOp(nchunks) ==
    [kind |-> "extract", pc |-> "chunks", nchunks |-> nchunks, i |-> 0,
     all_entities |-> << >>, all_relationships |-> << >>,
     entities |-> << >>, relationships |-> << >>]

\* lines 472-491: one extract_from_chunk call, whose exceptions are not
\* caught here
ExtractFromChunk ==
    /\ op.kind = "extract" /\ op.pc = "chunks" /\ op.i < op.nchunks
    /\ \E ok \in BOOLEAN, names \in ChunkEntityNames, relationships \in ChunkRelationships :
         op' = IF ok
               THEN [op EXCEPT
                        !.all_entities = @ \o prefix_entities(op.i, ChunkEntities(names)),
                        !.all_relationships = @ \o prefix_relationships(op.i, relationships),
                        !.i = @ + 1]
               ELSE [op EXCEPT !.pc = "raised"]
    /\ UNCHANGED <<ingestVars, tenantVars, scriptVars, graphVars, graphExists, snapshots, snapClock, opsLeft>>

\* lines 493-520
ExtractDeduplicate ==
    /\ op.kind = "extract" /\ op.pc = "chunks" /\ op.i = op.nchunks
    /\ LET d == deduplicate_entities_of(op.all_entities)
       IN  op' = [op EXCEPT
                     !.pc = "done",
                     !.entities = d.deduped,
                     !.relationships =
                         deduplicate_relationships(
                             update_relationship_references(op.all_relationships,
                                                            d.id_mapping), {})]
    /\ UNCHANGED <<ingestVars, tenantVars, scriptVars, graphVars, graphExists, snapshots, snapClock, opsLeft>>

InitExtract ==
    /\ documents = [d \in Docs |-> NewDocument([text |-> FALSE, nchunks |-> 0])]
    /\ chunks = {}
    /\ points = {}
    /\ req = [r \in Requests |-> IdleReq]
    /\ nextRun = 0
    /\ failedDeletes = {}
    /\ extractionClient = TRUE
    /\ nodes = {}
    /\ edges = {}
    /\ nextNodeId = 1
    /\ nextEdgeId = 1
    /\ graphExists = TRUE
    /\ snapshots = {}
    /\ snapClock = 1
    /\ \E nchunks \in 0..MaxChunks : op = ExtractOp(nchunks)
    /\ opsLeft = 0
    /\ field_nodes = << >>
    /\ agent_presence = << >>
    /\ state_file = << >>
    /\ projects = {}
    /\ graphs = {}
    /\ collections = {}

NextExtract == ExtractFromChunk \/ ExtractDeduplicate

SpecExtract == InitExtract /\ [][NextExtract]_vars

\* C19 (cross-chunk extraction output): the relationships extract_from_document
\* returns hold no relationship whose source equals its target and no
\* (source, target, type) triple twice.
C19_NoLoopsNoDuplicates ==
    (op.kind = "extract" /\ op.pc = "done")
    => /\ \A n \in 1..Len(op.relationships) :
             op.relationships[n].source # op.relationships[n].target
       /\ \A n, m \in 1..Len(op.relationships) :
             (/\ op.relationships[n].source = op.relationships[m].source
              /\ op.relationships[n].target = op.relationships[m].target
              /\ op.relationships[n].type = op.relationships[m].type)
             => n = m

\* Two chunks named the same two entities and the same relationship, one
\* chunk named one entity twice with a relationship between the two, and
\* one relationship was returned
C19_Witness ==
    /\ op.kind = "extract" /\ op.pc = "done" /\ op.nchunks = 2
    /\ Len(op.all_relationships) = 4
    /\ \E n \in 1..Len(op.all_relationships) :
          /\ op.all_relationships[n].source # op.all_relationships[n].target
          /\ \A e \in {op.all_entities[x] : x \in 1..Len(op.all_entities)} :
                e.temp_id \in {op.all_relationships[n].source,
                               op.all_relationships[n].target}
                => toLower(e.name) = "alpha"
    /\ Len(op.relationships) = 1

\* ------------------------------------------------------------------------
\* Claims on the extraction phase of process_document
\* ------------------------------------------------------------------------

\* In this step the extraction phase of request r raises and the exception
\* is caught
ExtractionRaises(r) ==
    /\ req[r].pc \in {"extract", "store_entity", "store_rel"}
    /\ req'[r].caught # NULL

\* After the step request r has returned 200 and its document is marked
\* processed with no error message
AbsorbedAfter(r) ==
    /\ req'[r].pc = "done" /\ req'[r].status = 200
    /\ documents'[req[r].doc].processed
    /\ documents'[req[r].doc].error_message = NULL

\* The entities and relationships request r has stored when it is about to
\* make its next call
StoredEntities(r) ==
    CASE req[r].pc = "extract" -> 0
      [] req[r].pc = "store_entity" -> req[r].j
      [] OTHER -> Len(ExtractionResult.entities)

StoredRelationships(r) == IF req[r].pc = "store_rel" THEN req[r].j ELSE 0

\* C20 (extraction failure is absorbed), as stated: when the extraction
\* phase raises, at an LLM call or at a graph write, the request returns
\* 200, the document stays processed with a null error message, and the
\* response reports no entity and no relationship.
C20_ExtractionFailureAbsorbed ==
    [][\A r \in Requests :
          ExtractionRaises(r)
          => /\ AbsorbedAfter(r)
             /\ req'[r].entities_extracted = 0
             /\ req'[r].relationships_created = 0]_vars

\* C20 (extraction failure is absorbed), as the code has it: the request
\* returns 200 and the document stays processed with a null error message;
\* the response reports the entities and relationships that were stored
\* before the failure, and these stay in the graph.  Both counts are 0 when
\* extract_from_document raised.
C20_ExtractionFailureKeepsStored ==
    [][\A r \in Requests :
          ExtractionRaises(r)
          => /\ AbsorbedAfter(r)
             /\ req'[r].entities_extracted = StoredEntities(r)
             /\ req'[r].relationships_created = StoredRelationships(r)
             /\ nodes' = nodes /\ edges' = edges
             /\ req'[r].caught = "extract_from_document"
                => (req'[r].entities_extracted = 0 /\ req'[r].relationships_created = 0)]_vars

\* A request whose second create_entity call raised has returned 200 with
\* entities_extracted = 1, and the first entity is in the graph
C20_Witness ==
    \E r \in Requests :
       /\ req[r].pc = "done" /\ req[r].status = 200
       /\ req[r].caught = "create_entity"
       /\ req[r].entities_extracted = 1
       /\ documents[req[r].doc].processed
       /\ nodes # {}

\* ------------------------------------------------------------------------
\* Claims on the failure handling of process_document
\* ------------------------------------------------------------------------

\* In this step a call of phase 1 of request r raises: the request's next
\* position is the except branch, or a warning was logged
Phase1Raises(r) ==
    \/ req[r].pc # "except" /\ req'[r].pc = "except"
    \/ ~req[r].warned /\ req'[r].warned

\* In this step request r leaves its except branch
ExceptReturns(r) == req[r].pc = "except" /\ req'[r].pc = "done"

\* C21 (ingest failure is recorded), as stated: every failure of chunk
\* cleanup, embedding, a chunk-row insert or the vector upsert takes the
\* request to its except branch, and the request leaves that branch with
\* status 500 and the error text in error_message of the document row.
C21_IngestFailureRecorded ==
    [][\A r \in Requests :
          /\ Phase1Raises(r) => req'[r].pc = "except"
          /\ ExceptReturns(r)
             => /\ req'[r].status = 500
                /\ documents'[req[r].doc].error_message = req[r].error
                /\ ~documents'[req[r].doc].processed]_vars

\* C21 (ingest failure is recorded), as the code has it: a failure of
\* delete_points is logged and the request goes on to delete the chunk
\* rows; every other failure of phase 1 takes the request to its except
\* branch, which it leaves with status 500; the document row then carries
\* processed = false and the error text, or is untouched because the UPDATE
\* that stores the text raised.
C21_IngestFailureRecordedIfStored ==
    [][\A r \in Requests :
          /\ Phase1Raises(r)
             => IF req[r].pc = "delete_points"
                THEN req'[r].pc = "delete_rows" /\ req'[r].error = NULL
                ELSE req'[r].pc = "except" /\ req'[r].error # NULL
          /\ ExceptReturns(r)
             => /\ req'[r].status = 500
                /\ \/ /\ documents'[req[r].doc].error_message = req[r].error
                      /\ ~documents'[req[r].doc].processed
                   \/ documents' = documents]_vars

\* A request whose vector upsert raised has answered 500 and the document
\* row carries the error text; the chunk rows of the run are in place
C21_Witness ==
    \E r \in Requests :
       /\ req[r].pc = "done" /\ req[r].status = 500
       /\ req[r].error = "upsert_chunks"
       /\ documents[req[r].doc].error_message = "upsert_chunks"
       /\ ~documents[req[r].doc].processed

\* ------------------------------------------------------------------------
\* Destructive graph requests next to a project deletion
\* (routers/knowledge.py, routers/projects.py)
\* ------------------------------------------------------------------------

\* Project p1 with its graph and collection; batch-delete and deduplicate
\* requests on its graph are served while delete_project requests for p1 are
\* served by other workers.
InitDestructive ==
    /\ documents = [d \in Docs |-> NewDocument([text |-> FALSE, nchunks |-> 0])]
    /\ chunks = {}
    /\ points = {}
    /\ req = [r \in Requests |-> IdleProjectReq]
    /\ nextRun = 0
    /\ failedDeletes = {}
    /\ extractionClient = FALSE
    /\ \E g \in {ComponentGraph, WidgetGraph} :
         /\ nodes = g.nodes
         /\ edges = g.edges
         /\ nextNodeId = Cardinality(g.nodes) + 1
         /\ nextEdgeId = Cardinality(g.edges) + 1
    /\ graphExists = TRUE
    /\ snapshots = StoredSnapshots(0)
    /\ snapClock = 2
    /\ op = IdleOp
    /\ opsLeft = MaxOps
    /\ field_nodes = << >>
    /\ agent_presence = << >>
    /\ state_file = << >>
    /\ projects = {ProjectRow("p1", 0)}
    /\ graphs = {graph_name("p1")}
    /\ collections = {collection_name("p1")}

NextDestructive ==
    \/ \E entity_ids \in BatchChoices : batch_delete_entities(entity_ids)
    \/ \E dry_run \in BOOLEAN : deduplicate_entities(dry_run)
    \/ SnapshotProject
    \/ SnapshotExport
    \/ SnapshotInsert
    \/ SnapshotPrune
    \/ BatchDelete
    \/ MergeRead
    \/ MergeCreate
    \/ MergeDelete
    \/ MergeDeleteNode
    \/ \E r \in Requests : delete_project(r, "p1")
    \/ \E r \in Requests : DeleteDropGraph(r)
    \/ \E r \in Requests : DeleteCollection(r)
    \/ \E r \in Requests : DeleteRow(r)

SpecDestructive == InitDestructive /\ [][NextDestructive]_vars

\* The step is one of graph.batch_delete or of merge_duplicates that
\* changes the graph
Destroys ==
    /\ op.pc \in {"batch_delete", "merge_create", "merge_delete", "merge_delete_node"}
    /\ op' # op
    /\ nodes' # nodes \/ edges' # edges

\* The snapshot the request took: the row its INSERT returned is stored
\* with the trigger of the request
AutoSnapshotTaken ==
    \E s \in snapshots :
       /\ s.id = op.row_id
       /\ s.trigger = IF op.kind = "batch_delete" THEN "auto_pre_batch_delete"
                      ELSE "auto_pre_deduplicate"

\* C22 (auto-snapshot before destruction): every step of a batch-delete or
\* of a non-dry-run deduplicate that deletes or merges an entity is taken
\* with a snapshot of the request's trigger persisted by that request, and a
\* snapshot creation that fails ends the request with nothing deleted or
\* merged.
C22_SnapshotBeforeDestruction ==
    [][/\ Destroys => AutoSnapshotTaken
       /\ (op.pc \in {"snap_export", "snap_insert", "snap_prune"}
             /\ op'.pc = "done" /\ op'.status = 500)
           => nodes' = nodes /\ edges' = edges]_vars

\* ------------------------------------------------------------------------
\* Chunking (services/chunking.py)
\* ------------------------------------------------------------------------

MaxTextLen == 6
MaxChunkSize == 3

\* A text is a sequence of symbols: "w" a word, "s" a word that ends a
\* sentence (it carries . ! or ? and whitespace follows), "p" a paragraph
\* break "\n\n".  The encoding makes one token of a word together with the
\* blank before it and one token of a paragraph break.
TextSymbols == {"w", "s", "p"}
Texts == UNION {[1..n -> TextSymbols] : n \in 0..MaxTextLen}

\* A word token is the position of its word in the text; the token of the
\* "\n\n" that chunk_text puts before a paragraph is the negated position of
\* the paragraph's first word.
count_tokens(content) == Len(content)

\* text.strip(); [p.strip() for p in text.split("\n\n") if p.strip()], from
\* position i on, cur being the paragraph read so far
RECURSIVE paragraphs_from(_, _, _)
paragraphs_from(text, i, cur) ==
    LET closed == IF cur = << >> THEN << >> ELSE << cur >>
    IN IF i > Len(text) THEN closed
       ELSE IF text[i] = "p" THEN closed \o paragraphs_from(text, i + 1, << >>)
       ELSE paragraphs_from(text, i + 1, Append(cur, i))

\* _split_sentences: re.split(r'(?<=[.!?])\s+', text), from token k of the
\* paragraph on
RECURSIVE _split_sentences(_, _, _, _)
_split_sentences(text, para, k, cur) ==
    IF k > Len(para) THEN (IF cur = << >> THEN << >> ELSE << cur >>)
    ELSE IF text[para[k]] = "s" /\ k < Len(para)
    THEN << Append(cur, para[k]) >> \o _split_sentences(text, para, k + 1, << >>)
    ELSE _split_sentences(text, para, k + 1, Append(cur, para[k]))

\* Chunk(content, token_count): index, start_char and end_char are left out
Chunk(content) == [content |-> content, token_count |-> count_tokens(content)]

\* _force_split: for i in range(0, len(tokens), chunk_size - chunk_overlap):
\* tokens[i:i + chunk_size]
RECURSIVE _force_split(_, _, _, _)
_force_split(tokens, i, chunk_size, chunk_overlap) ==
    IF i >= Len(tokens) THEN << >>
    ELSE LET last == IF i + chunk_size < Len(tokens) THEN i + chunk_size
                     ELSE Len(tokens)
         IN << Chunk(SubSeq(tokens, i + 1, last)) >>
            \o _force_split(tokens, i + (chunk_size - chunk_overlap),
                            chunk_size, chunk_overlap)

\* _split_long_paragraph: the loop over the sentences from sentence k on
RECURSIVE _split_long_paragraph(_, _, _, _, _)
_split_long_paragraph(sentences, k, current, chunk_size, chunk_overlap) ==
    LET saved == IF current = << >> THEN << >> ELSE << Chunk(current) >>
    IN IF k > Len(sentences) THEN saved
       ELSE LET sentence == sentences[k]
            IN IF count_tokens(current \o sentence) <= chunk_size
               THEN _split_long_paragraph(sentences, k + 1, current \o sentence,
                                          chunk_size, chunk_overlap)
               ELSE IF count_tokens(sentence) > chunk_size
               THEN saved \o _force_split(sentence, 0, chunk_size, chunk_overlap)
                    \o _split_long_paragraph(sentences, k + 1, << >>,
                                             chunk_size, chunk_overlap)
               ELSE saved \o _split_long_paragraph(sentences, k + 1, sentence,
                                                   chunk_size, chunk_overlap)

\* current_chunk + "\n\n" + para if current_chunk else para
joined(current_chunk, para) ==
    IF current_chunk = << >> THEN para
    ELSE current_chunk \o << 0 - para[1] >> \o para

\* chunk_text, lines 84-125: the loop over the paragraphs from paragraph k on
RECURSIVE chunk_paragraphs(_, _, _, _, _, _)
chunk_paragraphs(text, paragraphs, k, current_chunk, chunk_size, chunk_overlap) ==
    LET saved == IF current_chunk = << >> THEN << >> ELSE << Chunk(current_chunk) >>
    IN IF k > Len(paragraphs) THEN saved
       ELSE LET para == paragraphs[k]
            IN IF count_tokens(joined(current_chunk, para)) <= chunk_size
               THEN chunk_paragraphs(text, paragraphs, k + 1, joined(current_chunk, para),
                                     chunk_size, chunk_overlap)
               ELSE IF count_tokens(para) > chunk_size
               THEN saved
                    \o _split_long_paragraph(_split_sentences(text, para, 1, << >>), 1,
                                             << >>, chunk_size, chunk_overlap)
                    \o chunk_paragraphs(text, paragraphs, k + 1, << >>,
                                        chunk_size, chunk_overlap)
               ELSE saved \o chunk_paragraphs(text, paragraphs, k + 1, para,
                                              chunk_size, chunk_overlap)

\* _add_overlap: every chunk but the first gets the last chunk_overlap tokens
\* of the chunk before it (all of them when it has no more), then " ", in
\* front of its content
_add_overlap(chunk_list, chunk_overlap) ==
    IF Len(chunk_list) <= 1 \/ chunk_overlap = 0 THEN chunk_list
    ELSE [i \in 1..Len(chunk_list) |->
            IF i = 1 THEN chunk_list[1]
            ELSE LET prev_tokens == chunk_list[i - 1].content
                     overlap_tokens ==
                         IF Len(prev_tokens) > chunk_overlap
                         THEN SubSeq(prev_tokens, Len(prev_tokens) - chunk_overlap + 1,
                                     Len(prev_tokens))
                         ELSE prev_tokens
                 IN Chunk(overlap_tokens \o chunk_list[i].content)]

\* ChunkingService.chunk_text
chunk_text_of(text, chunk_size, chunk_overlap) ==
    LET paragraphs == paragraphs_from(text, 1, << >>)
    IN IF paragraphs = << >> THEN << >>
       ELSE _add_overlap(chunk_paragraphs(text, paragraphs, 1, << >>,
                                          chunk_size, chunk_overlap),
                         chunk_overlap)

\* The locals of one call of chunk_text
ChunkOp(text, chunk_size, chunk_overlap) ==
    [pc |-> "call", text |-> text, chunk_size |-> chunk_size,
     chunk_overlap |-> chunk_overlap, chunks |-> << >>]

\* chunks = chunker.chunk_text(text)
ChunkText ==
    /\ op.pc = "call"
    /\ op' = [op EXCEPT !.pc = "done",
                        !.chunks = chunk_text_of(op.text, op.chunk_size, op.chunk_overlap)]
    /\ UNCHANGED <<ingestVars, graphVars, graphExists, snapshots, snapClock, opsLeft,
                   tenantVars, scriptVars>>

\* A chunker with chunk_overlap < chunk_size is given a text
InitChunk ==
    /\ documents = [d \in Docs |-> NewDocument([text |-> FALSE, nchunks |-> 0])]
    /\ chunks = {}
    /\ points = {}
    /\ req = [r \in Requests |-> IdleReq]
    /\ nextRun = 0
    /\ failedDeletes = {}
    /\ extractionClient = FALSE
    /\ nodes = {}
    /\ edges = {}
    /\ nextNodeId = 1
    /\ nextEdgeId = 1
    /\ graphExists = TRUE
    /\ snapshots = {}
    /\ snapClock = 1
    /\ \E text \in Texts, chunk_size \in 1..MaxChunkSize :
         \E chunk_overlap \in 0..(chunk_size - 1) :
            op = ChunkOp(text, chunk_size, chunk_overlap)
    /\ opsLeft = 0
    /\ field_nodes = << >>
    /\ agent_presence = << >>
    /\ state_file = << >>
    /\ projects = {}
    /\ graphs = {}
    /\ collections = {}

NextChunk == ChunkText

SpecChunk == InitChunk /\ [][NextChunk]_vars

\* The tokens of a chunk
TokensOf(c) == {c.content[i] : i \in 1..Len(c.content)}

\* Every chunk has at most chunk_size tokens
ChunkSizeBound ==
    \A i \in 1..Len(op.chunks) : op.chunks[i].token_count <= op.chunk_size

\* Consecutive chunks share min(chunk_overlap, tokens of the first) tokens
ChunkOverlapShared ==
    \A i \in 1..(Len(op.chunks) - 1) :
       LET prev == op.chunks[i]
           need == IF op.chunk_overlap < prev.token_count THEN op.chunk_overlap
                   ELSE prev.token_count
       IN Cardinality(TokensOf(prev) \cap TokensOf(op.chunks[i + 1])) >= need

\* Every word of the text is in some chunk
ChunkCoverage ==
    \A w \in {i \in 1..Len(op.text) : op.text[i] # "p"} :
       \E i \in 1..Len(op.chunks) : w \in TokensOf(op.chunks[i])

\* C23 (chunking bounds): for every text and every (size, overlap) with
\* overlap < size, every chunk returned by chunk_text has token_count <= size,
\* every consecutive pair of chunks shares at least min(overlap, token_count
\* of the previous chunk) tokens, and the chunks together cover the text.
C23_ChunkingBounds ==
    op.pc = "done" => ChunkSizeBound /\ ChunkOverlapShared /\ ChunkCoverage

\* ------------------------------------------------------------------------
\* Duplicate groups of a dry-run deduplicate (routers/knowledge.py,
\* services/graph.py)
\* ------------------------------------------------------------------------

MaxEntities == 4

\* Names in two spellings and a third name, under two labels
DuplicateNames == {"Widget", "widget", "Alpha"}
DuplicateLabels == {"Component", "Concept"}

\* The graph holds n entities with ids 1..n
InitDuplicates ==
    /\ documents = [d \in Docs |-> NewDocument([text |-> FALSE, nchunks |-> 0])]
    /\ chunks = {}
    /\ points = {}
    /\ req = [r \in Requests |-> IdleReq]
    /\ nextRun = 0
    /\ failedDeletes = {}
    /\ extractionClient = FALSE
    /\ \E n \in 0..MaxEntities :
         \E name \in [1..n -> DuplicateNames], label \in [1..n -> DuplicateLabels] :
            /\ nodes = {create_entity_node(i, label[i], name[i], << >>) : i \in 1..n}
            /\ nextNodeId = n + 1
    /\ edges = {}
    /\ nextEdgeId = 1
    /\ graphExists = TRUE
    /\ snapshots = {}
    /\ snapClock = 1
    /\ op = IdleOp
    /\ opsLeft = 1
    /\ field_nodes = << >>
    /\ agent_presence = << >>
    /\ state_file = << >>
    /\ projects = {ProjectRow("p1", 0)}
    /\ graphs = {}
    /\ collections = {}

NextDuplicates == deduplicate_entities(TRUE)

SpecDuplicates == InitDuplicates /\ [][NextDuplicates]_vars

\* The deduplicate request has its groups
GroupsReported == op.kind = "deduplicate" /\ op.pc = "done" /\ op.status = 200

\* The ids of the entities of a reported group
GroupIds(grp) ==
    {grp.recommended_keep} \cup {grp.remove_ids[i] : i \in 1..Len(grp.remove_ids)}

\* The entities of the graph that share lowercased name and label with n
SameKey(n) ==
    {m.id : m \in {x \in nodes : /\ toLower(x.props.name) = toLower(n.props.name)
                                 /\ x.label = n.label}}

\* C24 (duplicate groups): every group reported by deduplicate holds at
\* least two entities, all with one lowercased name and one label; every set
\* of two or more entities sharing that key is reported as exactly one
\* group, with all its entities; the recommended keeper of a group is its
\* entity with the numerically lowest id.
C24_DuplicateGroups ==
    GroupsReported
    => /\ \A g \in 1..Len(op.groups) :
             LET ids == GroupIds(op.groups[g])
             IN /\ Cardinality(ids) >= 2
                /\ Cardinality(ids) = 1 + Len(op.groups[g].remove_ids)
                /\ \E n \in nodes : ids = SameKey(n)
                /\ \A i \in ids : op.groups[g].recommended_keep <= i
       /\ \A n \in nodes :
             Cardinality(SameKey(n)) >= 2
             => Cardinality({g \in 1..Len(op.groups) :
                                GroupIds(op.groups[g]) = SameKey(n)}) = 1

\* Two groups are reported for four entities: Widget under two spellings
\* with label Component, and Widget twice with label Concept.
C24_Witness ==
    /\ GroupsReported
    /\ Len(op.groups) = 2
    /\ \E g \in 1..2 :
          /\ op.groups[g].recommended_keep = 1
          /\ \E n \in nodes : n.id = 1 /\ n.props.name = "widget"
          /\ \E n \in nodes : n.id \in GroupIds(op.groups[g]) /\ n.props.name = "Widget"
    /\ \E m, n \in nodes :
          /\ toLower(m.props.name) = toLower(n.props.name)
          /\ m.label # n.label

\* ------------------------------------------------------------------------
\* Entity endpoints that take an id (routers/knowledge.py,
\* routers/visualization.py, services/graph.py)
\* ------------------------------------------------------------------------

MaxIdLen == 3

IdSymbols == {"entity_", "chunk_", "1", "2", "x", "-"}
EntityIds == UNION {[1..n -> IdSymbols] : n \in 1..MaxIdLen}

\* The second id of a create-relationship request, the second id of a batch
OtherIds == {<< "1" >>, << "x" >>}

\* EntityUpdate bodies: nothing set, or a property
UpdateBodies == {<< >>, [layer |-> "edge"]}

SingleIdEndpoints ==
    {"get_entity", "delete_entity", "update_entity", "get_entity_relationships",
     "get_local_graph"}

\* The id of the request of a single-id endpoint
entity_id_of(o) == CHOOSE eid \in o.entity_ids : TRUE

\* Some node has the id
Matches(nid) == \E n \in nodes : n.id = nid

\* get_entity, delete_entity, update_entity, get_entity_relationships,
\* get_visualization_graph: graph_name = await get_graph_name(db, slug);
\* update_entity then answers 400 when the body sets nothing
entity_request(kind, entity_id, updates) ==
    /\ \E ok \in BOOLEAN :
         LET o == [IdleOp EXCEPT !.kind = kind, !.entity_ids = {entity_id},
                                 !.properties = updates]
         IN StartOp(IF ~ok THEN Respond(o, 500)
                    ELSE IF RowsOf("p1") = {} THEN Respond(o, 404)
                    ELSE IF kind = "update_entity" /\ updates = << >>
                    THEN Respond(o, 400)
                    ELSE [o EXCEPT !.pc = "entity_call"])
    /\ UNCHANGED <<ingestVars, tenantVars, scriptVars, graphVars, graphExists, snapshots, snapClock>>

\* create_relationship: graph_name = await get_graph_name(db, slug)
create_relationship_request(source_id, target_id) ==
    /\ \E ok \in BOOLEAN :
         LET o == [source_id |-> source_id, target_id |-> target_id]
                  @@ [IdleOp EXCEPT !.kind = "create_relationship",
                                    !.entity_ids = {source_id, target_id}]
         IN StartOp(IF ~ok THEN Respond(o, 500)
                    ELSE IF RowsOf("p1") = {} THEN Respond(o, 404)
                    ELSE [o EXCEPT !.pc = "entity_call"])
    /\ UNCHANGED <<ingestVars, tenantVars, scriptVars, graphVars, graphExists, snapshots, snapClock>>

\* The service method is called: _validate_id first, whose ValueError no
\* handler catches (the request is answered 500), then the Cypher query
ServiceCall(kind) ==
    /\ op.kind = kind
    /\ op.pc = "entity_call"

\* The locals after the query was handed to execute_cypher
Sent(o) == [o EXCEPT !.sent = TRUE]

\* GraphService.get_entity; 404 without a row
GetEntity ==
    /\ ServiceCall("get_entity")
    /\ IF raises_ValueError(entity_id_of(op)) THEN op' = Respond(op, 500)
       ELSE \E ok \in CypherOutcomes :
               op' = Respond(Sent(op),
                             IF ~ok THEN 500
                             ELSE IF Matches(_validate_id(entity_id_of(op))) THEN 200
                             ELSE 404)
    /\ UNCHANGED <<ingestVars, tenantVars, scriptVars, graphVars, graphExists, snapshots, snapClock, opsLeft>>

\* GraphService.delete_entity: MATCH (n) WHERE id(n) = safe_id DETACH DELETE n
\* RETURN count(*); the one row of the count makes the answer 204
DeleteEntity ==
    /\ ServiceCall("delete_entity")
    /\ IF raises_ValueError(entity_id_of(op))
       THEN op' = Respond(op, 500) /\ UNCHANGED <<nodes, edges>>
       ELSE \E ok \in CypherOutcomes :
               IF ok
               THEN LET gone == {_validate_id(entity_id_of(op))}
                    IN /\ nodes' = detach_delete_nodes(nodes, gone)
                       /\ edges' = detach_delete_edges(edges, gone)
                       /\ op' = Respond(Sent(op), 204)
               ELSE op' = Respond(Sent(op), 500) /\ UNCHANGED <<nodes, edges>>
    /\ UNCHANGED <<ingestVars, tenantVars, scriptVars, nextNodeId, nextEdgeId, graphExists, snapshots,
                   snapClock, opsLeft>>

\* GraphService.update_entity; without a row the handler looks the entity up
UpdateEntity ==
    /\ ServiceCall("update_entity")
    /\ IF raises_ValueError(entity_id_of(op))
       THEN op' = Respond(op, 500) /\ UNCHANGED nodes
       ELSE \E ok \in CypherOutcomes :
               LET safe_id == _validate_id(entity_id_of(op))
               IN IF ~ok THEN op' = Respond(Sent(op), 500) /\ UNCHANGED nodes
                  ELSE /\ nodes' = update_entity(nodes, safe_id, op.properties)
                       /\ op' = IF Matches(safe_id) THEN Respond(Sent(op), 200)
                                ELSE [Sent(op) EXCEPT !.pc = "entity_lookup"]
    /\ UNCHANGED <<ingestVars, tenantVars, scriptVars, edges, nextNodeId, nextEdgeId, graphExists,
                   snapshots, snapClock, opsLeft>>

\* update_entity: existing = await graph.get_entity(...); 404 without it
UpdateEntityLookup ==
    /\ op.pc = "entity_lookup"
    /\ \E ok \in CypherOutcomes :
         op' = Respond(op, IF ~ok THEN 500
                           ELSE IF Matches(_validate_id(entity_id_of(op))) THEN 200
                           ELSE 404)
    /\ UNCHANGED <<ingestVars, tenantVars, scriptVars, graphVars, graphExists, snapshots, snapClock, opsLeft>>

\* GraphService.get_entity_relationships
GetEntityRelationships ==
    /\ ServiceCall("get_entity_relationships")
    /\ IF raises_ValueError(entity_id_of(op)) THEN op' = Respond(op, 500)
       ELSE \E ok \in CypherOutcomes : op' = Respond(Sent(op), IF ok THEN 200 ELSE 500)
    /\ UNCHANGED <<ingestVars, tenantVars, scriptVars, graphVars, graphExists, snapshots, snapClock, opsLeft>>

\* GraphService.get_local_graph, called by get_visualization_graph with focus
GetLocalGraph ==
    /\ ServiceCall("get_local_graph")
    /\ IF raises_ValueError(entity_id_of(op)) THEN op' = Respond(op, 500)
       ELSE \E ok \in CypherOutcomes : op' = Respond(Sent(op), IF ok THEN 200 ELSE 500)
    /\ UNCHANGED <<ingestVars, tenantVars, scriptVars, graphVars, graphExists, snapshots, snapClock, opsLeft>>

\* GraphService.create_relationship: both ids are validated, then MATCH (a),
\* (b) ... CREATE (a)-[r]->(b); 500 when no row comes back
CreateRelationship ==
    /\ ServiceCall("create_relationship")
    /\ IF raises_ValueError(op.source_id) \/ raises_ValueError(op.target_id)
       THEN op' = Respond(op, 500) /\ UNCHANGED <<edges, nextEdgeId>>
       ELSE \E ok \in CypherOutcomes :
               LET new == create_relationship_edges(nodes, nextEdgeId,
                              _validate_id(op.source_id), _validate_id(op.target_id),
                              "USES", << >>)
               IN IF ok
                  THEN /\ edges' = edges \cup new
                       /\ nextEdgeId' = nextEdgeId + Cardinality(new)
                       /\ op' = Respond(Sent(op), IF new # {} THEN 201 ELSE 500)
                  ELSE /\ op' = Respond(Sent(op), 500)
                       /\ UNCHANGED <<edges, nextEdgeId>>
    /\ UNCHANGED <<ingestVars, tenantVars, scriptVars, nodes, nextNodeId, graphExists, snapshots,
                   snapClock, opsLeft>>

\* One request on the graph of Alpha, Beta and Other
InitEntityId ==
    /\ documents = [d \in Docs |-> NewDocument([text |-> FALSE, nchunks |-> 0])]
    /\ chunks = {}
    /\ points = {}
    /\ req = [r \in Requests |-> IdleReq]
    /\ nextRun = 0
    /\ failedDeletes = {}
    /\ extractionClient = FALSE
    /\ nodes = ComponentGraph.nodes
    /\ edges = ComponentGraph.edges
    /\ nextNodeId = 4
    /\ nextEdgeId = 2
    /\ graphExists = TRUE
    /\ snapshots = StoredSnapshots(0)
    /\ snapClock = 2
    /\ op = IdleOp
    /\ opsLeft = 1
    /\ field_nodes = << >>
    /\ agent_presence = << >>
    /\ state_file = << >>
    /\ projects = {ProjectRow("p1", 0)}
    /\ graphs = {}
    /\ collections = {}

NextEntityId ==
    \/ \E kind \in SingleIdEndpoints, entity_id \in Incoming(EntityIds),
          updates \in UpdateBodies :
          entity_request(kind, entity_id, updates)
    \/ \E source_id \in Incoming(EntityIds), target_id \in OtherIds :
          create_relationship_request(source_id, target_id)
    \/ \E entity_id \in Incoming(EntityIds), other \in OtherIds :
          batch_delete_entities({entity_id, other})
    \/ GetEntity
    \/ DeleteEntity
    \/ UpdateEntity
    \/ UpdateEntityLookup
    \/ GetEntityRelationships
    \/ GetLocalGraph
    \/ CreateRelationship
    \/ SnapshotProject
    \/ SnapshotExport
    \/ SnapshotInsert
    \/ SnapshotPrune
    \/ BatchDelete

SpecEntityId == InitEntityId /\ [][NextEntityId]_vars

\* The id is not an integer once a leading entity_ or chunk_ is taken off
NotAnInteger(entity_id) ==
    ~int_parses(IF entity_id[1] \in {"entity_", "chunk_"} THEN Tail(entity_id)
                ELSE entity_id)

\* C25 (identifier validation): a request of an entity endpoint (get, delete,
\* patch, relationships, create relationship, batch delete, local graph)
\* that names an id which is not an integer after stripping a leading
\* entity_ or chunk_ prefix issues no query against the graph, and its
\* service call is answered with the validation error HTTP 400.
C25_IdentifierValidation ==
    [][(/\ op.kind \in SingleIdEndpoints \cup {"create_relationship", "batch_delete"}
        /\ op.pc \notin {"idle", "done"}
        /\ op' # op
        /\ \E eid \in op.entity_ids : NotAnInteger(eid))
       => /\ op.pc # "snap_export"
          /\ ~op'.sent
          /\ (op.pc \in {"entity_call", "batch_delete"}
              => op'.pc = "done" /\ op'.status = 400)]_vars

\* ------------------------------------------------------------------------
\* Batch create (services/graph.py batch_create, routers/knowledge.py)
\* ------------------------------------------------------------------------

MaxBatchEntities == 2
MaxBatchRelationships == 1

\* ref of a BatchEntityCreate: none, or a name that is no integer
NoRef == << >>
BatchRefs == {NoRef, << "a" >>, << "b" >>}

\* from and to of a BatchRelationshipCreate: a ref, the id of a node of the
\* graph, the id of no node
BatchEnds == {<< "a" >>, << "b" >>, << "1" >>, << "9" >>}

BatchEntityLists == UNION {[1..n -> [ref : BatchRefs]] : n \in 0..MaxBatchEntities}
BatchRelationshipLists ==
    UNION {[1..n -> [from_ref : BatchEnds, to_ref : BatchEnds]] :
              n \in 0..MaxBatchRelationships}

\* POST /batch: graph_name = await get_graph_name(db, slug); the locals of
\* GraphService.batch_create.  attempts is history: the items whose creation
\* was attempted, in order, with the node or relationship the graph got.
batch_create(entities, relationships) ==
    /\ \E ok \in BOOLEAN :
         LET o == [kind |-> "batch_create", pc |-> "batch_entities", status |-> 0,
                   entities |-> entities, relationships |-> relationships, i |-> 1,
                   ref_to_id |-> << >>, entities_created |-> << >>,
                   relationships_created |-> << >>, errors |-> << >>,
                   attempts |-> << >>]
         IN StartOp(IF ~ok THEN Respond(o, 500)
                    ELSE IF RowsOf("p1") = {} THEN Respond(o, 404)
                    ELSE o)
    /\ UNCHANGED <<ingestVars, tenantVars, scriptVars, graphVars, graphExists, snapshots, snapClock>>

\* ref_to_id[entity.ref] = entity_id
remember(ref_to_id, ref, entity_id) ==
    [r \in (DOMAIN ref_to_id) \cup {ref} |->
        IF r = ref THEN entity_id ELSE ref_to_id[r]]

\* str(result.get("id", "")): the id as the string that int() reads back
RECURSIVE str(_)
str(n) ==
    IF n < 10 THEN << DigitChars[n + 1] >>
    ELSE Append(str(n \div 10), DigitChars[(n % 10) + 1])

\* ref_to_id.get(ref, ref)
resolved(ref_to_id, ref) == IF ref \in DOMAIN ref_to_id THEN ref_to_id[ref] ELSE ref

\* Phase 1, one turn of the loop: create_entity, the ref remembered; an
\* exception is appended to errors
BatchCreateEntity ==
    /\ op.pc = "batch_entities"
    /\ op.i <= Len(op.entities)
    /\ \E ok \in CypherOutcomes :
         LET entity == op.entities[op.i]
             next == [op EXCEPT !.i = @ + 1]
         IN IF ok
            THEN /\ nodes' = nodes \cup
                       {create_entity_node(nextNodeId, "Component", "Beta", << >>)}
                 /\ nextNodeId' = nextNodeId + 1
                 /\ op' = [next EXCEPT
                             !.ref_to_id = IF entity.ref # NoRef
                                           THEN remember(@, entity.ref, str(nextNodeId))
                                           ELSE @,
                             !.entities_created =
                                 Append(@, [ref |-> entity.ref, id |-> str(nextNodeId)]),
                             !.attempts = Append(@, [item |-> "entity", index |-> op.i,
                                                     made |-> {nextNodeId}])]
            ELSE /\ op' = [next EXCEPT
                             !.errors = Append(@, [item |-> "entity", index |-> op.i]),
                             !.attempts = Append(@, [item |-> "entity", index |-> op.i,
                                                     made |-> {}])]
                 /\ UNCHANGED <<nodes, nextNodeId>>
    /\ UNCHANGED <<ingestVars, tenantVars, scriptVars, edges, nextEdgeId, graphExists, snapshots,
                   snapClock, opsLeft>>

\* Phase 1 is over
BatchEntitiesDone ==
    /\ op.pc = "batch_entities"
    /\ op.i > Len(op.entities)
    /\ op' = IF op.relationships = << >> THEN Respond(op, 201)
             ELSE [op EXCEPT !.pc = "batch_relationships", !.i = 1]
    /\ UNCHANGED <<ingestVars, tenantVars, scriptVars, graphVars, graphExists, snapshots, snapClock, opsLeft>>

\* Phase 2, one turn of the loop: the refs are resolved, create_relationship
\* validates both ids and runs MATCH (a), (b) ... CREATE; the relationship is
\* appended to relationships_created whatever the query returned, an
\* exception is appended to errors; after the last one the response
BatchCreateRelationship ==
    /\ op.pc = "batch_relationships"
    /\ \E ok \in CypherOutcomes :
         LET rel == op.relationships[op.i]
             resolved_source == resolved(op.ref_to_id, rel.from_ref)
             resolved_target == resolved(op.ref_to_id, rel.to_ref)
             raised == \/ raises_ValueError(resolved_source)
                       \/ raises_ValueError(resolved_target)
                       \/ ~ok
             new == IF raised THEN {}
                    ELSE create_relationship_edges(nodes, nextEdgeId,
                             _validate_id(resolved_source), _validate_id(resolved_target),
                             "USES", << >>)
             next == [op EXCEPT
                        !.i = @ + 1,
                        !.attempts = Append(@, [item |-> "relationship", index |-> op.i,
                                                made |-> new]),
                        !.errors = IF raised
                                   THEN Append(@, [item |-> "relationship", index |-> op.i])
                                   ELSE @,
                        !.relationships_created =
                            IF raised THEN @
                            ELSE Append(@, [id |-> {e.id : e \in new},
                                            from |-> resolved_source,
                                            to |-> resolved_target])]
         IN /\ edges' = edges \cup new
            /\ nextEdgeId' = nextEdgeId + Cardinality(new)
            /\ op' = IF op.i < Len(op.relationships) THEN next ELSE Respond(next, 201)
    /\ UNCHANGED <<ingestVars, tenantVars, scriptVars, nodes, nextNodeId, graphExists, snapshots,
                   snapClock, opsLeft>>

\* One batch on the graph of Alpha, Beta and Other (ids 1, 2, 3)
InitBatch ==
    /\ documents = [d \in Docs |-> NewDocument([text |-> FALSE, nchunks |-> 0])]
    /\ chunks = {}
    /\ points = {}
    /\ req = [r \in Requests |-> IdleReq]
    /\ nextRun = 0
    /\ failedDeletes = {}
    /\ extractionClient = FALSE
    /\ nodes = ComponentGraph.nodes
    /\ edges = ComponentGraph.edges
    /\ nextNodeId = 4
    /\ nextEdgeId = 2
    /\ graphExists = TRUE
    /\ snapshots = {}
    /\ snapClock = 1
    /\ op = IdleOp
    /\ opsLeft = 1
    /\ field_nodes = << >>
    /\ agent_presence = << >>
    /\ state_file = << >>
    /\ projects = {ProjectRow("p1", 0)}
    /\ graphs = {}
    /\ collections = {}

NextBatch ==
    \/ \E entities \in Incoming(BatchEntityLists),
          relationships \in BatchRelationshipLists :
          batch_create(entities, relationships)
    \/ BatchCreateEntity
    \/ BatchEntitiesDone
    \/ BatchCreateRelationship

SpecBatch == InitBatch /\ [][NextBatch]_vars

\* The batch has been answered
BatchAnswered == op.kind = "batch_create" /\ op.pc = "done" /\ op.status = 201

\* The ids the batch assigned to the entities it created with a ref
AssignedIds(ref) ==
    {nid \in {n.id : n \in nodes} :
        \E k \in 1..Len(op.attempts) :
           /\ op.attempts[k].item = "entity"
           /\ op.attempts[k].made = {nid}
           /\ op.entities[op.attempts[k].index].ref = ref}

\* C27 (batch create does not abort): every entity creation is attempted
\* before any relationship creation; every item is attempted, an item that
\* was not created is recorded in errors, and the entities created stay in
\* the graph; a relationship created from or to the ref of an entity created
\* in this batch lies between the assigned ids.
C27_BatchDoesNotAbort ==
    BatchAnswered
    => /\ Len(op.attempts) = Len(op.entities) + Len(op.relationships)
       /\ \A k \in 1..Len(op.attempts) :
             LET a == op.attempts[k]
             IN /\ a.item = (IF k <= Len(op.entities) THEN "entity" ELSE "relationship")
                /\ a.index = (IF k <= Len(op.entities) THEN k ELSE k - Len(op.entities))
                /\ a.made = {}
                   => \E e \in 1..Len(op.errors) :
                         op.errors[e] = [item |-> a.item, index |-> a.index]
                /\ a.item = "entity" => \A nid \in a.made : \E n \in nodes : n.id = nid
                /\ a.item = "relationship"
                   => \A e \in a.made :
                         LET rel == op.relationships[a.index]
                         IN /\ AssignedIds(rel.from_ref) # {}
                               => e.src \in AssignedIds(rel.from_ref)
                            /\ AssignedIds(rel.to_ref) # {}
                               => e.tgt \in AssignedIds(rel.to_ref)

\* ------------------------------------------------------------------------
\* Swarm task scripts (swarm-layer/files/scripts/lib)
\*
\* Each invocation is a process with its own connection: psycopg2 opens a
\* transaction at the first statement, an UPDATE takes the row's lock until
\* the transaction ends, a second writer of the row waits for it and then
\* re-checks its WHERE clause on the committed row (READ COMMITTED), and an
\* exception ends the process without a commit, which rolls back.
\* ------------------------------------------------------------------------

MaxInvocations == 2
Invocations == 1..MaxInvocations
Workers == {"w1", "w2"}
TaskIds == {"t1", "t2"}
MissingTask == "t9"
TaskStates == {"open", "claimed", "resolved"}

FieldNode(state, claimed_by, blocked_by) ==
    [state |-> state, claimed_by |-> claimed_by, blocked_by |-> blocked_by,
     xlock |-> 0]

IdleInvocation ==
    [pc |-> "idle", node_id |-> NULL, worker_id |-> NULL, row |-> FALSE,
     found |-> NULL, out |-> NULL, presence |-> FALSE,
     wrote_task |-> FALSE, wrote_presence |-> FALSE]

\* The rows a transaction has locked are released when it ends
Released(i, table) ==
    [t \in DOMAIN table |->
        IF table[t].xlock = i THEN [table[t] EXCEPT !.xlock = 0] ELSE table[t]]

\* except Exception: error JSON on stderr, exit 1; the open transaction is
\* rolled back by the server when the connection goes away
Failed(i) ==
    /\ req' = [req EXCEPT ![i] = [@ EXCEPT !.pc = "done", !.out = "error"]]
    /\ field_nodes' = Released(i, field_nodes)

\* main: argv is read, the connection is opened
claim_task(i, node_id, worker_id) ==
    /\ req[i].pc = "idle"
    /\ \A j \in Invocations : j < i => req[j].pc # "idle"
    /\ req' = [req EXCEPT ![i] = [@ EXCEPT !.pc = "select_affinity",
                                            !.node_id = node_id,
                                            !.worker_id = worker_id]]
    /\ UNCHANGED <<documents, chunks, points, nextRun, failedDeletes, extractionClient,
                   graphVars, serviceVars, tenantVars, scriptVars>>

\* SELECT affinity FROM field_nodes WHERE id = %s
SelectAffinity(i) ==
    /\ req[i].pc = "select_affinity"
    /\ \E ok \in BOOLEAN :
         IF ok THEN /\ req' = [req EXCEPT ![i] = [@ EXCEPT !.pc = "update"]]
                    /\ UNCHANGED field_nodes
         ELSE Failed(i)
    /\ UNCHANGED <<documents, chunks, points, nextRun, failedDeletes, extractionClient,
                   graphVars, serviceVars, tenantVars, agent_presence, state_file>>

claim_matches_any(node) == TRUE

\* WHERE ... AND state = 'open'
claim_matches(node) == node.state = "open"

\* UPDATE field_nodes SET state = 'claimed', claimed_by = %s WHERE id = %s
\* AND state = 'open' RETURNING id, title; row = cursor.fetchone()
ClaimUpdate(i) ==
    /\ req[i].pc = "update"
    /\ LET n == req[i].node_id
           exists == n \in DOMAIN field_nodes
           hit == exists /\ claim_matches(field_nodes[n])
       IN  /\ hit => field_nodes[n].xlock \in {0, i}
           /\ \E ok \in BOOLEAN :
                IF ~ok THEN Failed(i)
                ELSE /\ req' = [req EXCEPT ![i] =
                                  [@ EXCEPT !.pc = IF hit THEN "insert" ELSE "commit",
                                            !.row = hit,
                                            !.found = IF exists THEN field_nodes[n].state
                                                      ELSE NULL]]
                     /\ field_nodes' = IF hit
                                       THEN [field_nodes EXCEPT ![n].xlock = i]
                                       ELSE field_nodes
    /\ UNCHANGED <<documents, chunks, points, nextRun, failedDeletes, extractionClient,
                   graphVars, serviceVars, tenantVars, agent_presence, state_file>>

\* if row: INSERT INTO agent_presence ... ON CONFLICT (agent_id) DO UPDATE;
\* the insert waits for another transaction's uncommitted row of the agent
RegisterPresence(i) ==
    /\ req[i].pc = "insert"
    /\ ~\E j \in Invocations \ {i} :
          req[j].pc = "commit" /\ req[j].presence /\ req[j].worker_id = req[i].worker_id
    /\ \E ok \in BOOLEAN :
         IF ok THEN /\ req' = [req EXCEPT ![i] = [@ EXCEPT !.pc = "commit",
                                                          !.presence = TRUE]]
                    /\ UNCHANGED field_nodes
         ELSE Failed(i)
    /\ UNCHANGED <<documents, chunks, points, nextRun, failedDeletes, extractionClient,
                   graphVars, serviceVars, tenantVars, agent_presence, state_file>>

\* conn.commit(): the claimed row and the presence row become visible
ClaimCommit(i) ==
    /\ req[i].pc = "commit"
    /\ \E ok \in BOOLEAN :
         IF ~ok THEN Failed(i) /\ UNCHANGED agent_presence
         ELSE LET n == req[i].node_id
                  w == req[i].worker_id
              IN  /\ field_nodes' =
                        Released(i, IF req[i].row
                                    THEN [field_nodes EXCEPT ![n].state = "claimed",
                                                             ![n].claimed_by = w]
                                    ELSE field_nodes)
                  /\ agent_presence' =
                        IF req[i].presence
                        THEN (w :> [lifecycle_state |-> "active",
                                    current_zone_id |-> n]) @@ agent_presence
                        ELSE agent_presence
                  /\ req' = [req EXCEPT ![i] =
                               [@ EXCEPT !.pc = "report", !.presence = FALSE,
                                         !.wrote_task = req[i].row,
                                         !.wrote_presence = req[i].presence]]
    /\ UNCHANGED <<documents, chunks, points, nextRun, failedDeletes, extractionClient,
                   graphVars, serviceVars, tenantVars, state_file>>

\* if row: print claimed true; else SELECT state, claimed_by and print
\* claimed false with the reason
ClaimReport(i) ==
    /\ req[i].pc = "report"
    /\ \E ok \in BOOLEAN :
         req' = [req EXCEPT ![i] =
                   [@ EXCEPT !.pc = "done",
                             !.out = IF req[i].row THEN "claimed_true"
                                     ELSE IF ok THEN "claimed_false"
                                     ELSE "error"]]
    /\ UNCHANGED <<documents, chunks, points, nextRun, failedDeletes, extractionClient,
                   graphVars, serviceVars, tenantVars, scriptVars>>

InitClaim ==
    /\ documents = [d \in Docs |-> NULL]
    /\ chunks = {}
    /\ points = {}
    /\ req = [i \in Invocations |-> IdleInvocation]
    /\ nextRun = 0
    /\ failedDeletes = {}
    /\ extractionClient = FALSE
    /\ nodes = {}
    /\ edges = {}
    /\ nextNodeId = 1
    /\ nextEdgeId = 1
    /\ graphExists = FALSE
    /\ snapshots = {}
    /\ snapClock = 0
    /\ op = [pc |-> "idle"]
    /\ opsLeft = 0
    /\ projects = {}
    /\ graphs = {}
    /\ collections = {}
    /\ \E s \in [TaskIds -> TaskStates] :
         field_nodes = [t \in TaskIds |->
                          FieldNode(s[t], IF s[t] = "open" THEN NULL ELSE "w0", {})]
    /\ agent_presence = << >>
    /\ state_file = << >>

NextClaim ==
    \/ \E i \in Invocations, node_id \in TaskIds \cup {MissingTask}, worker_id \in Workers :
          claim_task(i, node_id, worker_id)
    \/ \E i \in Invocations : SelectAffinity(i)
    \/ \E i \in Invocations : ClaimUpdate(i)
    \/ \E i \in Invocations : RegisterPresence(i)
    \/ \E i \in Invocations : ClaimCommit(i)
    \/ \E i \in Invocations : ClaimReport(i)

SpecClaim == InitClaim /\ [][NextClaim]_vars

ReportsClaimed(i) == req[i].pc = "done" /\ req[i].out = "claimed_true"
ReportsNotClaimed(i) == req[i].pc = "done" /\ req[i].out = "claimed_false"

\* C28: among the claim-task invocations on a task at most one reports
\* claimed:true, and it found the task in state 'open'; from then on the
\* task is in state 'claimed' with claimed_by equal to its worker; an
\* invocation that reports claimed:false committed no write to the task and
\* no presence row.
C28_AtomicClaim ==
    \A i \in Invocations :
        /\ ReportsClaimed(i) =>
              /\ req[i].found = "open"
              /\ field_nodes[req[i].node_id].state = "claimed"
              /\ field_nodes[req[i].node_id].claimed_by = req[i].worker_id
              /\ req[i].worker_id \in DOMAIN agent_presence
              /\ \A j \in Invocations \ {i} :
                    ReportsClaimed(j) => req[j].node_id # req[i].node_id
        /\ ReportsNotClaimed(i) =>
              /\ ~req[i].wrote_task
              /\ ~req[i].wrote_presence

\* Two invocations went for the same open task: one reports claimed:true,
\* the other found the task claimed and reports claimed:false
C28_Witness ==
    \E i, j \in Invocations :
        /\ ReportsClaimed(i) /\ ReportsNotClaimed(j)
        /\ req[i].node_id = req[j].node_id
        /\ req[j].found = "claimed"
        /\ field_nodes[req[i].node_id].claimed_by = req[i].worker_id

\* ------------------------------------------------------------------------
\* resolve-task.py: two transactions, the resolving update and the
\* unblocking update
\* ------------------------------------------------------------------------

Dependent == "t3"

IdleResolve ==
    [pc |-> "idle", node_id |-> NULL, row |-> FALSE, out |-> NULL,
     unblocked |-> {}, wrote |-> FALSE]

\* main: the arguments are parsed, the connection is opened
resolve_task(i, node_id) ==
    /\ req[i].pc = "idle"
    /\ \A j \in Invocations : j < i => req[j].pc # "idle"
    /\ req' = [req EXCEPT ![i] = [@ EXCEPT !.pc = "update", !.node_id = node_id]]
    /\ UNCHANGED <<documents, chunks, points, nextRun, failedDeletes, extractionClient,
                   graphVars, serviceVars, tenantVars, scriptVars>>

\* UPDATE field_nodes SET state = 'resolved', ... WHERE id = %s
\* RETURNING id, title; row = cursor.fetchone()
ResolveUpdate(i) ==
    /\ req[i].pc = "update"
    /\ LET n == req[i].node_id
           exists == n \in DOMAIN field_nodes
       IN  /\ exists => field_nodes[n].xlock \in {0, i}
           /\ \E ok \in BOOLEAN :
                IF ~ok THEN Failed(i)
                ELSE /\ req' = [req EXCEPT ![i] = [@ EXCEPT !.pc = "commit", !.row = exists]]
                     /\ field_nodes' = IF exists
                                       THEN [field_nodes EXCEPT ![n].xlock = i]
                                       ELSE field_nodes
    /\ UNCHANGED <<documents, chunks, points, nextRun, failedDeletes, extractionClient,
                   graphVars, serviceVars, tenantVars, agent_presence, state_file>>

\* conn.commit() of the resolving update
ResolveCommit(i) ==
    /\ req[i].pc = "commit"
    /\ \E ok \in BOOLEAN :
         IF ~ok THEN Failed(i)
         ELSE /\ field_nodes' =
                    Released(i, IF req[i].row
                                THEN [field_nodes EXCEPT ![req[i].node_id].state = "resolved"]
                                ELSE field_nodes)
              /\ req' = [req EXCEPT ![i] =
                           [@ EXCEPT !.pc = IF req[i].row THEN "unblock" ELSE "report",
                                     !.wrote = req[i].row]]
    /\ UNCHANGED <<documents, chunks, points, nextRun, failedDeletes, extractionClient,
                   graphVars, serviceVars, tenantVars, agent_presence, state_file>>

blocked_only_by(n, table) == {m \in DOMAIN table : table[m].blocked_by = {n}}

\* WHERE %s = ANY(blocked_by)
blocked_on(n, table) == {m \in DOMAIN table : n \in table[m].blocked_by}

\* UPDATE field_nodes SET blocked_by = array_remove(blocked_by, %s)
\* WHERE %s = ANY(blocked_by) RETURNING id; unblocked = cursor.fetchall()
Unblock(i) ==
    /\ req[i].pc = "unblock"
    /\ LET hit == blocked_on(req[i].node_id, field_nodes)
       IN  /\ \A m \in hit : field_nodes[m].xlock \in {0, i}
           /\ \E ok \in BOOLEAN :
                IF ~ok THEN Failed(i)
                ELSE /\ req' = [req EXCEPT ![i] = [@ EXCEPT !.pc = "commit_unblock",
                                                            !.unblocked = hit]]
                     /\ field_nodes' = [m \in DOMAIN field_nodes |->
                                          IF m \in hit
                                          THEN [field_nodes[m] EXCEPT !.xlock = i]
                                          ELSE field_nodes[m]]
    /\ UNCHANGED <<documents, chunks, points, nextRun, failedDeletes, extractionClient,
                   graphVars, serviceVars, tenantVars, agent_presence, state_file>>

\* conn.commit() of the unblocking update
UnblockCommit(i) ==
    /\ req[i].pc = "commit_unblock"
    /\ \E ok \in BOOLEAN :
         IF ~ok THEN Failed(i)
         ELSE /\ field_nodes' =
                    Released(i, [m \in DOMAIN field_nodes |->
                                   IF m \in req[i].unblocked
                                   THEN [field_nodes[m] EXCEPT
                                           !.blocked_by = @ \ {req[i].node_id}]
                                   ELSE field_nodes[m]])
              /\ req' = [req EXCEPT ![i] = [@ EXCEPT !.pc = "report"]]
    /\ UNCHANGED <<documents, chunks, points, nextRun, failedDeletes, extractionClient,
                   graphVars, serviceVars, tenantVars, agent_presence, state_file>>

\* print resolved true with unblocked_count = len(unblocked), or resolved
\* false with the reason "Task not found"
ResolveReport(i) ==
    /\ req[i].pc = "report"
    /\ req' = [req EXCEPT ![i] =
                 [@ EXCEPT !.pc = "done",
                           !.out = IF req[i].row THEN "resolved_true"
                                   ELSE "resolved_false"]]
    /\ UNCHANGED <<documents, chunks, points, nextRun, failedDeletes, extractionClient,
                   graphVars, serviceVars, tenantVars, scriptVars>>

InitResolve ==
    /\ documents = [d \in Docs |-> NULL]
    /\ chunks = {}
    /\ points = {}
    /\ req = [i \in Invocations |-> IdleResolve]
    /\ nextRun = 0
    /\ failedDeletes = {}
    /\ extractionClient = FALSE
    /\ nodes = {}
    /\ edges = {}
    /\ nextNodeId = 1
    /\ nextEdgeId = 1
    /\ graphExists = FALSE
    /\ snapshots = {}
    /\ snapClock = 0
    /\ op = [pc |-> "idle"]
    /\ opsLeft = 0
    /\ projects = {}
    /\ graphs = {}
    /\ collections = {}
    /\ \E s \in TaskStates, b1 \in SUBSET {"t2"}, b2 \in SUBSET {"t1"},
          b3 \in SUBSET TaskIds :
         field_nodes =
            [t \in TaskIds \cup {Dependent} |->
               IF t = "t1" THEN FieldNode(s, IF s = "open" THEN NULL ELSE "w0", b1)
               ELSE IF t = "t2" THEN FieldNode("claimed", "w0", b2)
               ELSE FieldNode("open", NULL, b3)]
    /\ agent_presence = << >>
    /\ state_file = << >>

NextResolve ==
    \/ \E i \in Invocations, node_id \in TaskIds \cup {MissingTask} :
          resolve_task(i, node_id)
    \/ \E i \in Invocations : ResolveUpdate(i)
    \/ \E i \in Invocations : ResolveCommit(i)
    \/ \E i \in Invocations : Unblock(i)
    \/ \E i \in Invocations : UnblockCommit(i)
    \/ \E i \in Invocations : ResolveReport(i)

SpecResolve == InitResolve /\ [][NextResolve]_vars

ReportsResolved(i) == req[i].pc = "done" /\ req[i].out = "resolved_true"
ReportsNotResolved(i) == req[i].pc = "done" /\ req[i].out = "resolved_false"

\* The nodes that list n in blocked_by
ListedBy(n) == {m \in DOMAIN field_nodes : n \in field_nodes[m].blocked_by}

\* C29: when an invocation reports resolved:true for n, n is in state
\* 'resolved' and no field node lists n in blocked_by; the unblocked_count it
\* reports is the number of nodes that listed n in blocked_by before its
\* unblocking update; an invocation on an id that is not in the table
\* reports resolved:false and has written nothing, and resolved:false is
\* reported for such ids only.
C29_ResolveUnblocks ==
    [][\A i \in Invocations :
          /\ (req[i].pc = "unblock" /\ req'[i].pc = "commit_unblock") =>
                Cardinality(req'[i].unblocked) = Cardinality(ListedBy(req[i].node_id))
          /\ (req[i].pc = "report" /\ req'[i].pc = "done") =>
                IF req[i].node_id \in DOMAIN field_nodes
                THEN /\ req'[i].out = "resolved_true"
                     /\ field_nodes'[req[i].node_id].state = "resolved"
                     /\ \A m \in DOMAIN field_nodes' :
                           req[i].node_id \notin field_nodes'[m].blocked_by
                ELSE /\ req'[i].out = "resolved_false"
                     /\ ~req[i].wrote
                     /\ req[i].unblocked = {}]_vars

\* An invocation reports resolved:true with unblocked_count 2 for a node
\* that two nodes listed next to another blocker, and an invocation on a
\* missing id reports resolved:false
C29_Witness ==
    \E i, j \in Invocations :
        /\ ReportsResolved(i) /\ Cardinality(req[i].unblocked) = 2
        /\ req[i].node_id = "t1"
        /\ field_nodes[Dependent].blocked_by = {"t2"}
        /\ ReportsNotResolved(j) /\ req[j].node_id = MissingTask

\* ------------------------------------------------------------------------
\* Onboarding pipeline (pipe-onboarding-automation/files/scripts/onboard.py)
\* ------------------------------------------------------------------------

MaxSteps == 2

\* The step types that have a handler
STEP_HANDLERS == {"email", "account", "task", "access", "docs"}

\* Steps a role's configuration may list; "meeting" has no handler
ConfigSteps ==
    {[name |-> "Welcome Email", type |-> "email"],
     [name |-> "welcome_email", type |-> "meeting"],
     [name |-> "Laptop!", type |-> "task"]}

StepLists == UNION {[1..n -> ConfigSteps] : n \in 0..MaxSteps}

\* lower, strip, drop what is neither word character, blank nor hyphen,
\* blanks and underscores to one hyphen
slugify(name) ==
    CASE name = "Welcome Email" -> "welcome-email"
      [] name = "welcome_email" -> "welcome-email"
      [] name = "Laptop!" -> "laptop"

\* f"{i:03d}-{slugify(step_name)}"
step_key(i, step) == <<i, slugify(step.name)>>

\* The state file does not exist
NoStateFile ==
    [exists |-> FALSE, steps |-> << >>, started_at |-> FALSE, completed_at |-> FALSE]

\* load_state: the file's content or a fresh state
load_state(file) ==
    IF file.exists THEN [steps |-> file.steps, started_at |-> file.started_at,
                         completed_at |-> file.completed_at]
    ELSE [steps |-> << >>, started_at |-> FALSE, completed_at |-> FALSE]

save_state(state) ==
    [exists |-> TRUE, steps |-> state.steps, started_at |-> state.started_at,
     completed_at |-> state.completed_at]

\* state["steps"].get(step_key, {}).get("status")
status_of(state, key) ==
    IF key \in DOMAIN state.steps THEN state.steps[key] ELSE NULL

with_status(run, key, status) ==
    [run EXCEPT !.state.steps = (key :> status) @@ run.state.steps]

\* One pass of the loop over the steps; raises[i] says whether the handler
\* of step i raises when it is called
run_step(run, i, step, raises, dry_run) ==
    LET key == step_key(i, step)
    IN  IF status_of(run.state, key) = "completed"
        THEN [run EXCEPT !.success_count = @ + 1]
        ELSE IF dry_run
        THEN [run EXCEPT !.success_count = @ + 1]
        ELSE IF step.type \notin STEP_HANDLERS
        THEN with_status(run, key, "skipped")
        ELSE IF raises
        THEN [with_status(run, key, "failed") EXCEPT !.failure_count = @ + 1]
        ELSE [with_status(run, key, "completed") EXCEPT !.success_count = @ + 1]

RECURSIVE run_steps(_, _, _, _, _)
run_steps(run, i, steps, raises, dry_run) ==
    IF i > Len(steps) THEN run
    ELSE run_steps(run_step(run, i, steps[i], raises[i], dry_run),
                   i + 1, steps, raises, dry_run)

\* run_pipeline for a role that is not in the config
RunUnknownRole ==
    /\ opsLeft > 0
    /\ opsLeft' = opsLeft - 1
    /\ op' = [pc |-> "done", in_config |-> FALSE, steps |-> << >>, dry_run |-> FALSE,
              returned |-> FALSE, success_count |-> 0, failure_count |-> 0]
    /\ UNCHANGED <<ingestVars, graphVars, tenantVars, graphExists, snapshots, snapClock,
                   scriptVars>>

\* run_pipeline for a role of the config
run_pipeline(steps, raises, dry_run) ==
    /\ opsLeft > 0
    /\ opsLeft' = opsLeft - 1
    /\ IF steps = << >>
       THEN /\ op' = [pc |-> "done", in_config |-> TRUE, steps |-> steps,
                      dry_run |-> dry_run, returned |-> TRUE,
                      success_count |-> 0, failure_count |-> 0]
            /\ UNCHANGED state_file
       ELSE LET loaded == load_state(state_file)
                ran == run_steps([state |-> [loaded EXCEPT !.started_at = TRUE],
                                  success_count |-> 0, failure_count |-> 0],
                                 1, steps, raises, dry_run)
                all_ok == ran.failure_count = 0
                final == IF all_ok THEN [ran.state EXCEPT !.completed_at = TRUE]
                         ELSE ran.state
            IN  /\ op' = [pc |-> "done", in_config |-> TRUE, steps |-> steps,
                          dry_run |-> dry_run, returned |-> all_ok,
                          success_count |-> ran.success_count,
                          failure_count |-> ran.failure_count]
                /\ state_file' = IF dry_run THEN state_file ELSE save_state(final)
    /\ UNCHANGED <<ingestVars, graphVars, tenantVars, graphExists, snapshots, snapClock,
                   field_nodes, agent_presence>>

InitOnboard ==
    /\ documents = [d \in Docs |-> NULL]
    /\ chunks = {}
    /\ points = {}
    /\ req = [r \in Requests |-> IdleReq]
    /\ nextRun = 0
    /\ failedDeletes = {}
    /\ extractionClient = FALSE
    /\ nodes = {}
    /\ edges = {}
    /\ nextNodeId = 1
    /\ nextEdgeId = 1
    /\ graphExists = FALSE
    /\ snapshots = {}
    /\ snapClock = 0
    /\ op = [pc |-> "idle"]
    /\ opsLeft = MaxOps
    /\ projects = {}
    /\ graphs = {}
    /\ collections = {}
    /\ field_nodes = << >>
    /\ agent_presence = << >>
    /\ state_file = NoStateFile

NextOnboard ==
    \/ RunUnknownRole
    \/ \E steps \in StepLists, dry_run \in BOOLEAN :
          \E raises \in [1..Len(steps) -> BOOLEAN] : run_pipeline(steps, raises, dry_run)

SpecOnboard == InitOnboard /\ [][NextOnboard]_vars

\* Every step configured for the role has status 'completed' in the
\* persisted state
AllStepsCompleted ==
    \A i \in 1..Len(op.steps) :
        status_of(state_file, step_key(i, op.steps[i])) = "completed"

\* C30: a non-dry-run run_pipeline for a role of the config returns True
\* exactly when every step configured for the role has status 'completed'
\* in the persisted state, and completed_at is set in the persisted state
\* only then.
C30_PipelineResult ==
    (op.pc = "done" /\ op.in_config /\ ~op.dry_run) =>
        /\ op.returned <=> AllStepsCompleted
        /\ state_file.completed_at => AllStepsCompleted

\* ------------------------------------------------------------------------
\* Re-processing and the graph
\* ------------------------------------------------------------------------

\* The entities and relationships stored for a document: process_document
\* sets document_id on every node it creates
EntitiesOf(d) == {n \in nodes : "document_id" \in DOMAIN n.props /\ n.props.document_id = d}
RelationshipsOf(d) ==
    {e \in edges : \E a, b \in EntitiesOf(d) : e.src = a.id /\ e.tgt = b.id}

\* The graph store has served exactly two complete extraction results: all
\* entities and all relationships of two runs, and nothing else
TwoResultsStored ==
    /\ nextNodeId = 2 * Len(ExtractionResult.entities) + 1
    /\ nextEdgeId = 2 * Len(ExtractionResult.relationships) + 1

\* Request r has re-processed document d and stored the whole extraction
\* result
ReprocessedWithGraph(r, d) ==
    /\ Reprocessed(r)
    /\ req[r].doc = d
    /\ req[r].entities_extracted = Len(ExtractionResult.entities)
    /\ req[r].relationships_created = Len(ExtractionResult.relationships)

\* C40 (re-processing is idempotent on the graph): when a document has been
\* processed twice with the extraction provider returning the same result,
\* the graph holds the entities and relationships of the document once, as
\* after the first run.
C40_ReprocessIdempotentOnGraph ==
    \A d \in Docs :
       (TwoResultsStored /\ ReprocessedWithGraph("r1", d))
          => /\ Cardinality(EntitiesOf(d)) = Len(ExtractionResult.entities)
             /\ Cardinality(RelationshipsOf(d)) = Len(ExtractionResult.relationships)

\* ------------------------------------------------------------------------
\* Document requests served in parallel (routers/documents.py): two
\* process_document requests and delete_document requests, interleaved at
\* their awaited store calls
\* ------------------------------------------------------------------------

DeleteOp(pc, doc, status) ==
    [kind |-> "delete_document", pc |-> pc, doc |-> doc, status |-> status]

\* lines 179-193: look the document up; 404 when it is absent
delete_document(d) ==
    /\ op.pc \in {"idle", "done"}
    /\ opsLeft > 0
    /\ opsLeft' = opsLeft - 1
    /\ \E ok \in BOOLEAN :
         op' = IF ~ok THEN DeleteOp("done", d, 500)
               ELSE IF ~documents[d].present THEN DeleteOp("done", d, 404)
               ELSE DeleteOp("delete_by_document", d, 0)
    /\ UNCHANGED <<ingestVars, graphVars, tenantVars, graphExists, snapshots, snapClock,
                   scriptVars>>

\* VectorService.delete_by_document: the points whose payload document_id
\* is the document's are removed
delete_by_document(ps, d) == {p \in ps : p.document_id # d}

\* line 196: scroll and delete run without suspending; an exception of the
\* client leaves the handler
DeleteByDocument ==
    /\ op.pc = "delete_by_document"
    /\ \E ok \in BOOLEAN :
         IF ok THEN /\ points' = delete_by_document(points, op.doc)
                    /\ op' = [op EXCEPT !.pc = "delete_row"]
         ELSE /\ op' = [op EXCEPT !.pc = "done", !.status = 500]
              /\ UNCHANGED points
    /\ UNCHANGED <<documents, chunks, req, nextRun, failedDeletes, extractionClient,
                   graphVars, tenantVars, graphExists, snapshots, snapClock, opsLeft,
                   scriptVars>>

\* lines 199-204: DELETE FROM public.documents WHERE id = d, which cascades
\* to the document's chunk rows; 204
DeleteDocumentRow ==
    /\ op.pc = "delete_row"
    /\ \E ok \in BOOLEAN :
         IF ok THEN /\ documents' = [documents EXCEPT ![op.doc].present = FALSE]
                    /\ chunks' = delete_chunk_rows(chunks, op.doc)
                    /\ op' = [op EXCEPT !.pc = "done", !.status = 204]
         ELSE /\ op' = [op EXCEPT !.pc = "done", !.status = 500]
              /\ UNCHANGED <<documents, chunks>>
    /\ UNCHANGED <<points, req, nextRun, failedDeletes, extractionClient,
                   graphVars, tenantVars, graphExists, snapshots, snapClock, opsLeft,
                   scriptVars>>

\* One document, its content a text of MaxChunks chunks or white space
\* only; the other id is of no document.  Two process_document requests are
\* started in a behaviour.
InitDocs ==
    /\ \E content \in {c \in DocContents : c.text} :
         documents = [d \in Docs |->
                        [NewDocument(content) EXCEPT !.present = (d = "doc-1")]]
    /\ chunks = {}
    /\ points = {}
    /\ req = [r \in Requests |-> IdleReq]
    /\ nextRun = MaxRuns - 2
    /\ failedDeletes = {}
    /\ extractionClient \in BOOLEAN
    /\ EmptyGraph
    /\ graphExists = TRUE
    /\ snapshots = {}
    /\ snapClock = 1
    /\ op = DeleteOp("idle", NULL, 0)
    /\ opsLeft = 1
    /\ projects = {}
    /\ graphs = {}
    /\ collections = {}
    /\ field_nodes = << >>
    /\ agent_presence = << >>
    /\ state_file = << >>

NextDocs ==
    \/ process_document("r1")
    \/ process_document("r2")
    \/ \E d \in Docs : delete_document(d)
    \/ DeleteByDocument
    \/ DeleteDocumentRow

SpecDocs == InitDocs /\ [][NextDocs]_vars

\* C31: when delete_document returns 204 for document D, no chunk row of D
\* and no vector point whose payload document_id is D is stored; when the
\* deletion of the vector points fails, the document row is not deleted.
C31_DocumentDelete ==
    [][/\ (op.pc = "delete_row" /\ op'.pc = "done" /\ op'.status = 204) =>
              /\ {c \in chunks' : c.document_id = op.doc} = {}
              /\ {p \in points' : p.document_id = op.doc} = {}
       /\ (op.pc = "delete_by_document" /\ op'.pc = "done") =>
              /\ op'.status = 500
              /\ documents'[op.doc].present]_vars

\* The runs whose chunk rows of document d are stored
RunsStored(d) == {c.id[1] : c \in DocChunks(d)}

\* Both requests have answered 200 for document d, each for its own run
BothProcessed(d) ==
    /\ \A r \in Requests : req[r].pc = "done" /\ req[r].status = 200 /\ req[r].doc = d
    /\ req["r1"].run # req["r2"].run

\* C38: chunk rows of two runs of a document never coexist, and when two
\* process_document requests for the same document have both finished, the
\* document's chunk rows and its vector points are those of exactly one of
\* the two runs.
C38_ConcurrentReprocess ==
    \A d \in Docs :
        /\ Cardinality(RunsStored(d)) <= 1
        /\ BothProcessed(d) =>
              \E r \in Requests :
                  /\ ChunkIds(d) = RunChunkIds(req[r].run, d)
                  /\ PointIds(d) = RunChunkIds(req[r].run, d)

\* ------------------------------------------------------------------------
\* Sequences of graph-changing requests on one project
\* ------------------------------------------------------------------------

\* Ids a request names: two of nodes the graph may hold, one of no node
LifecycleIds == {<< "1" >>, << "2" >>, << "9" >>}

\* The batches of a behaviour: an entity and a relationship from it to node
\* 1, to no node, and from an unknown ref
LifecycleBatches ==
    {[entities |-> << [ref |-> << "a" >>] >>,
      relationships |-> << [from_ref |-> << "a" >>, to_ref |-> t] >>] :
        t \in {<< "1" >>, << "9" >>, << "b" >>}}

\* POST /entities: graph_name = await get_graph_name(db, slug)
create_entity_request(name, type) ==
    /\ \E ok \in BOOLEAN :
         LET o == [IdleOp EXCEPT !.kind = "create_entity", !.name = name, !.type = type]
         IN StartOp(IF ~ok THEN Respond(o, 500)
                    ELSE IF RowsOf("p1") = {} THEN Respond(o, 404)
                    ELSE [o EXCEPT !.pc = "entity_call"])
    /\ UNCHANGED <<ingestVars, tenantVars, scriptVars, graphVars, graphExists, snapshots, snapClock>>

\* GraphService.create_entity: CREATE (n:type {props}) RETURN id(n)
CreateEntity ==
    /\ ServiceCall("create_entity")
    /\ \E ok \in CypherOutcomes :
         IF ok
         THEN /\ nodes' = nodes \cup
                    {create_entity_node(nextNodeId, op.type, op.name, << >>)}
              /\ nextNodeId' = nextNodeId + 1
              /\ op' = Respond(Sent(op), 201)
         ELSE /\ op' = Respond(Sent(op), 500)
              /\ UNCHANGED <<nodes, nextNodeId>>
    /\ UNCHANGED <<ingestVars, tenantVars, scriptVars, edges, nextEdgeId, graphExists,
                   snapshots, snapClock, opsLeft>>

\* The graph of Alpha, Beta and Other or the graph with two Widget nodes,
\* and one stored snapshot of the project
InitLifecycle ==
    /\ documents = [d \in Docs |-> NewDocument([text |-> FALSE, nchunks |-> 0])]
    /\ chunks = {}
    /\ points = {}
    /\ req = [r \in Requests |-> IdleReq]
    /\ nextRun = 0
    /\ failedDeletes = {}
    /\ extractionClient = FALSE
    /\ \E g \in {ComponentGraph, WidgetGraph} :
         /\ nodes = g.nodes
         /\ edges = g.edges
         /\ nextNodeId = Cardinality(g.nodes) + 1
         /\ nextEdgeId = Cardinality(g.edges) + 1
    /\ graphExists = TRUE
    /\ snapshots = StoredSnapshots(1)
    /\ snapClock = 3
    /\ op = IdleOp
    /\ opsLeft = MaxOps
    /\ field_nodes = << >>
    /\ agent_presence = << >>
    /\ state_file = << >>
    /\ projects = {ProjectRow("p1", 0)}
    /\ graphs = {}
    /\ collections = {}

NextLifecycle ==
    \/ create_entity_request("Widget", "Component")
    \/ CreateEntity
    \/ \E source_id \in Incoming(LifecycleIds), target_id \in LifecycleIds :
          create_relationship_request(source_id, target_id)
    \/ CreateRelationship
    \/ \E entity_id \in Incoming(LifecycleIds) :
          entity_request("delete_entity", entity_id, << >>)
    \/ DeleteEntity
    \/ \E entity_ids \in BatchChoices : batch_delete_entities(entity_ids)
    \/ BatchDelete
    \/ \E b \in Incoming(LifecycleBatches) : batch_create(b.entities, b.relationships)
    \/ BatchCreateEntity
    \/ BatchEntitiesDone
    \/ BatchCreateRelationship
    \/ deduplicate_entities(FALSE)
    \/ MergeRead
    \/ MergeCreate
    \/ MergeDelete
    \/ MergeDeleteNode
    \/ \E snapshot_id \in RestoreTargets : restore_snapshot(snapshot_id)
    \/ RestoreDrop
    \/ RestoreCreateGraph
    \/ RestoreEntity
    \/ RestoreRelationship
    \/ SnapshotProject
    \/ SnapshotExport
    \/ SnapshotInsert
    \/ SnapshotPrune

SpecLifecycle == InitLifecycle /\ [][NextLifecycle]_vars

\* Source and target of every relationship are entities of the graph
NoDangling(ns, es) ==
    \A e \in es : (\E n \in ns : n.id = e.src) /\ (\E n \in ns : n.id = e.tgt)

\* C35 (no dangling relationships): every step of a create_entity,
\* create_relationship, delete_entity, batch delete, batch create, merge or
\* restore leaves the source and the target of every relationship among the
\* entities of the graph, and a create_relationship call one of whose
\* endpoints matches no entity creates nothing.
C35_NoDanglingRelationships ==
    [][/\ NoDangling(nodes', edges')
       /\ (/\ ServiceCall("create_relationship")
           /\ ~raises_ValueError(op.source_id) /\ ~raises_ValueError(op.target_id)
           /\ ~Matches(_validate_id(op.source_id)) \/ ~Matches(_validate_id(op.target_id)))
          => edges' = edges]_vars

\* A delete of an entity with relationships, and a create_relationship to
\* an id of no entity, have both been answered
C35_Witness ==
    /\ opsLeft = 0
    /\ op.kind = "create_relationship" /\ op.pc = "done" /\ op.sent
    /\ op.target_id = << "9" >>
    /\ Cardinality(nodes) = 2
    /\ edges = {}

====
